---- MODULE Spec2Model ----
(***************************************************************************)
(* Branching-decision layer of the RVRP-HTW branch-and-price solver:       *)
(*   cons_vehicleass.c      customer/day decision records and propagation  *)
(*   pricer_vrp.c           restricted graph of the current node, cache    *)
(*   vehicleass_branching.c branching rule on (customer, day) pairs        *)
(***************************************************************************)
EXTENDS Integers, Sequences, FiniteSets, TLC

(* ------------------------------ bounds --------------------------------- *)
\* modeldata->nC: customers 0 .. nC-2 and the depot nC-1
nC == 3
\* modeldata->nDays
nDays == 3
\* largest number of columns added by pricing
MaxPriced == 2
\* largest number of nodes of the search tree explored
MaxNodes == 5
\* largest number of columns the engine fixes to one
MaxLbFix == 1
\* LP values are multiples of 1/LPDenom
LPDenom == 2
\* largest number of customers of a generated tour
MaxTourLen == 2

(* --------------------------- program constants ------------------------- *)
VA_PROHIBIT == 0
VA_ENFORCE == 1
\* a verdict value outside enum ConsTypeVA
VA_OTHER == VA_ENFORCE + 1
\* the verdicts of arc records (enum of cons_arcflow.h)
PROHIBIT == "PROHIBIT"
ENFORCE == "ENFORCE"
\* number of the root node, the initial pricerdata->lastnodeid
RootId == 1

Customers == 0 .. (nC - 2)
Depot == nC - 1
Vertices == 0 .. (nC - 1)
Days == 0 .. (nDays - 1)

VARIABLES
    timeWindows,   \* modeldata->timeWindows: vertex -> sequence of days
    modelNeighbors,\* modeldata->neighbors: vertex -> day -> sequence of vertices
    cols,          \* probdata->vars: sequence of [tour, day]
    fix0,          \* local zero-fixings: set of <<node, column index>>
    fix1,          \* local fixings to one made by the engine
    conss,         \* customer/day decision records (SCIP_ConsData)
    arcconss,      \* arc decision records read by the pricer
    parent,        \* search tree: node number -> parent number (0 for the root)
    open,          \* leaves not yet processed
    cur,           \* deepest node of the active path
    target,        \* node the engine is switching to / focus node
    pc,            \* position of the engine
    graph,         \* pricerdata: isForbidden, toDepot, timetable, eC, nEC, neighbors
    lastnodeid,    \* pricerdata->lastnodeid
    call,          \* the callback executed last and what it did
    asserts,       \* assertions of the code that failed so far
    nbuilt         \* number of set_current_graph calls made at the focus node

vars == <<timeWindows, modelNeighbors, cols, fix0, fix1, conss, arcconss, parent,
          open, cur, target, pc, graph, lastnodeid, call, asserts, nbuilt>>

(* ------------------------------ helpers -------------------------------- *)
Range(s) == {s[i] : i \in 1 .. Len(s)}

RECURSIVE PathOf(_, _)
PathOf(par, n) == IF n = 0 THEN << >> ELSE Append(PathOf(par, par[n]), n)

Path(n) == PathOf(parent, n)
PathSet(n) == Range(Path(n))

nvars == Len(cols)

\* local bounds at the active path, doubled so that 0.5 is the integer 1
UbLocal2(v) == IF \E n \in PathSet(cur) : <<n, v>> \in fix0 THEN 0 ELSE 2
LbLocal2(v) == IF \E n \in PathSet(cur) : <<n, v>> \in fix1 THEN 2 ELSE 0

IsActive(cd) == cd.node \in PathSet(cur)

\* indices of the active records, in the order of the handler's array
ActiveIdx == SelectSeq([i \in 1 .. Len(conss) |-> i], LAMBDA i : IsActive(conss[i]))
ActiveArcs == SelectSeq(arcconss, LAMBDA a : a.node \in PathSet(cur))
ActiveVAs == [k \in 1 .. Len(ActiveIdx) |-> conss[ActiveIdx[k]]]

(* -------------------- cons_vehicleass.c: propagation ------------------- *)
consdataCreate(customer, day, type, node) ==
    [customer |-> customer, day |-> day, type |-> type, npropagatedvars |-> 0,
     npropagations |-> 0, propagated |-> FALSE, node |-> node]

\* variant: a column that does not visit the customer never counts as a hit
customerAndDayInVar_visitsonly(var, customer, day) ==
    IF customer \in var.tour
    THEN (IF var.day = day THEN 2 ELSE 1)
    ELSE 0

customerAndDayInVar(var, customer, day) ==
    IF customer \in var.tour
    THEN (IF var.day = day THEN 2 ELSE 1)
    ELSE (IF var.day = day THEN 1 ELSE 0)

\* SCIPfixVar(var, 0.0): infeasible iff 0 lies below the lower bound
SCIPfixVarInfeasible(lb2) == lb2 > 1

\* st = [nfixedvars, cutoff, fx, log]; fx: columns fixed to zero in this call;
\* a log entry holds arcStatus as computed, -1 where the code returns before it
UbAt(v, fx) == IF v \in fx THEN 0 ELSE UbLocal2(v)

\* variant: only PROHIBIT records fix columns
checkVariable_noenforce(consdata, v, st) ==
    LET var == cols[v + 1]
        ub2 == UbAt(v, st.fx)
        lb2 == LbLocal2(v)
        arcStatus == customerAndDayInVar(var, consdata.customer, consdata.day)
        entry(o) == [node |-> consdata.node, v |-> v, ub2 |-> ub2, lb2 |-> lb2,
                     arcStatus |-> IF ub2 < 1 THEN -1 ELSE arcStatus, out |-> o]
    IN  IF ub2 >= 1 /\ consdata.type = VA_PROHIBIT /\ arcStatus = 2
        THEN IF SCIPfixVarInfeasible(lb2)
             THEN [st EXCEPT !.cutoff = TRUE, !.log = Append(@, entry("cutoff"))]
             ELSE [st EXCEPT !.nfixedvars = @ + 1, !.fx = @ \cup {v},
                             !.log = Append(@, entry("fixed"))]
        ELSE [st EXCEPT !.log = Append(@, entry("none"))]

checkVariable(consdata, v, st) ==
    LET var == cols[v + 1]
        ub2 == UbAt(v, st.fx)
        lb2 == LbLocal2(v)
        arcStatus == customerAndDayInVar(var, consdata.customer, consdata.day)
        entry(o) == [node |-> consdata.node, v |-> v, ub2 |-> ub2, lb2 |-> lb2,
                     arcStatus |-> IF ub2 < 1 THEN -1 ELSE arcStatus, out |-> o]
    IN  IF ub2 < 1 THEN [st EXCEPT !.log = Append(@, entry("none"))]
        ELSE IF arcStatus = 0 THEN [st EXCEPT !.log = Append(@, entry("none"))]
        ELSE IF (consdata.type = VA_PROHIBIT /\ arcStatus = 2)
                \/ (consdata.type = VA_ENFORCE /\ arcStatus = 1)
        THEN IF SCIPfixVarInfeasible(lb2)
             THEN [st EXCEPT !.cutoff = TRUE, !.log = Append(@, entry("cutoff"))]
             ELSE [st EXCEPT !.nfixedvars = @ + 1, !.fx = @ \cup {v},
                             !.log = Append(@, entry("fixed"))]
        ELSE [st EXCEPT !.log = Append(@, entry("none"))]

RECURSIVE FixLoop(_, _, _)
FixLoop(consdata, v, st) ==
    IF v < nvars /\ ~st.cutoff
    THEN FixLoop(consdata, v + 1, checkVariable(consdata, v, st))
    ELSE st

\* variant: the fixings made are not reported
consdataFixVariables_keepres(consdata, res, fx, log) ==
    LET st == FixLoop(consdata, consdata.npropagatedvars,
                      [nfixedvars |-> 0, cutoff |-> FALSE, fx |-> fx, log |-> log])
    IN  [result |-> IF st.cutoff THEN "CUTOFF" ELSE res,
         fx |-> st.fx, log |-> st.log]

\* variant: a record without fixings overwrites the result of the records before
consdataFixVariables_overwrite(consdata, res, fx, log) ==
    LET st == FixLoop(consdata, consdata.npropagatedvars,
                      [nfixedvars |-> 0, cutoff |-> FALSE, fx |-> fx, log |-> log])
    IN  [result |-> IF st.cutoff THEN "CUTOFF"
                    ELSE IF st.nfixedvars > 0 THEN "REDUCEDDOM" ELSE "DIDNOTFIND",
         fx |-> st.fx, log |-> st.log]

\* variant: the scan starts at the first column instead of the cursor
consdataFixVariables_fromzero(consdata, res, fx, log) ==
    LET st == FixLoop(consdata, 0,
                      [nfixedvars |-> 0, cutoff |-> FALSE, fx |-> fx, log |-> log])
    IN  [result |-> IF st.cutoff THEN "CUTOFF"
                    ELSE IF st.nfixedvars > 0 THEN "REDUCEDDOM" ELSE res,
         fx |-> st.fx, log |-> st.log]

\* variant: a scan that ends in a cutoff takes back the fixings it made
consdataFixVariables_undo(consdata, res, fx, log) ==
    LET st == FixLoop(consdata, consdata.npropagatedvars,
                      [nfixedvars |-> 0, cutoff |-> FALSE, fx |-> fx, log |-> log])
    IN  [result |-> IF st.cutoff THEN "CUTOFF"
                    ELSE IF st.nfixedvars > 0 THEN "REDUCEDDOM" ELSE res,
         fx |-> IF st.cutoff THEN fx ELSE st.fx, log |-> st.log]

\* returns [result, fx, log]
consdataFixVariables(consdata, res, fx, log) ==
    LET st == FixLoop(consdata, consdata.npropagatedvars,
                      [nfixedvars |-> 0, cutoff |-> FALSE, fx |-> fx, log |-> log])
    IN  [result |-> IF st.cutoff THEN "CUTOFF"
                    ELSE IF st.nfixedvars > 0 THEN "REDUCEDDOM" ELSE res,
         fx |-> st.fx, log |-> st.log]

RECURSIVE CheckLoop(_, _, _, _)
CheckLoop(consdata, v, n, fx) ==
    IF v >= n THEN TRUE
    ELSE IF UbAt(v, fx) < 1 THEN CheckLoop(consdata, v + 1, n, fx)
    ELSE LET arcStatus == customerAndDayInVar(cols[v + 1], consdata.customer, consdata.day)
         IN  IF arcStatus = 0 THEN TRUE
             ELSE IF (consdata.type = VA_PROHIBIT /\ arcStatus = 2)
                     \/ (consdata.type = VA_ENFORCE /\ arcStatus = 1)
             THEN FALSE
             ELSE CheckLoop(consdata, v + 1, n, fx)

consdataCheck(consdata, beforeprop, fx) ==
    CheckLoop(consdata, 0, IF beforeprop THEN consdata.npropagatedvars ELSE nvars, fx)

\* the debug block of consPropVehicleAss: no equal records behind position c
NoEqualConsdata(cs, idx, c) ==
    \A i \in (c + 1) .. Len(idx) :
        /\ ~(cs[idx[c]].customer = cs[idx[i]].customer
             /\ cs[idx[c]].type = VA_ENFORCE /\ cs[idx[i]].type = VA_ENFORCE)
        /\ ~(cs[idx[c]].customer = cs[idx[i]].customer /\ cs[idx[c]].day = cs[idx[i]].day)

\* st = [conss, result, fx, log, asserts]
RECURSIVE PropLoop(_, _, _)
PropLoop(idx, c, st) ==
    IF c > Len(idx) THEN st
    ELSE
    LET k == idx[c]
        consdata == st.conss[k]
        a1 == IF consdataCheck(consdata, TRUE, st.fx) THEN {} ELSE {"prop_checkbefore"}
        a2 == IF NoEqualConsdata(st.conss, idx, c) THEN {} ELSE {"prop_equalconsdata"}
    IN  IF ~consdata.propagated
        THEN LET r == consdataFixVariables(consdata, st.result, st.fx, st.log)
                 cd1 == [consdata EXCEPT !.npropagations = @ + 1]
             IN  IF r.result # "CUTOFF"
                 THEN LET cd2 == [cd1 EXCEPT !.propagated = TRUE, !.npropagatedvars = nvars]
                          a3 == IF consdataCheck(cd2, FALSE, r.fx) THEN {}
                                ELSE {"prop_checkafter"}
                      IN  PropLoop(idx, c + 1,
                                   [conss |-> [st.conss EXCEPT ![k] = cd2],
                                    result |-> r.result, fx |-> r.fx, log |-> r.log,
                                    asserts |-> st.asserts \cup a1 \cup a2 \cup a3])
                 ELSE [conss |-> [st.conss EXCEPT ![k] = cd1],
                       result |-> r.result, fx |-> r.fx, log |-> r.log,
                       asserts |-> st.asserts \cup a1 \cup a2]
        ELSE LET a3 == IF consdataCheck(consdata, FALSE, st.fx) THEN {}
                       ELSE {"prop_checkafter"}
             IN  PropLoop(idx, c + 1,
                          [st EXCEPT !.asserts = @ \cup a1 \cup a2 \cup a3])

\* variant: the propagated flag of the records is ignored
consPropVehicleAss_ignoreflag(idx) ==
    PropLoop(idx, 1, [conss |-> [i \in 1 .. Len(conss) |->
                                    [conss[i] EXCEPT !.propagated = FALSE]],
                      result |-> "DIDNOTFIND", fx |-> {},
                      log |-> << >>, asserts |-> {}])

\* variant: a processed record is not marked propagated
consPropVehicleAss_unmarked(idx) ==
    LET r == PropLoop(idx, 1, [conss |-> conss, result |-> "DIDNOTFIND", fx |-> {},
                               log |-> << >>, asserts |-> {}])
    IN  [r EXCEPT !.conss = [i \in 1 .. Len(conss) |->
                                [r.conss[i] EXCEPT !.propagated = conss[i].propagated]]]

\* variant: the cursor of a processed record is left where it was
consPropVehicleAss_cursorkept(idx) ==
    LET r == PropLoop(idx, 1, [conss |-> conss, result |-> "DIDNOTFIND", fx |-> {},
                               log |-> << >>, asserts |-> {}])
    IN  [r EXCEPT !.conss = [i \in 1 .. Len(conss) |->
                                [r.conss[i] EXCEPT
                                    !.npropagatedvars = conss[i].npropagatedvars]]]

consPropVehicleAss(idx) ==
    PropLoop(idx, 1, [conss |-> conss, result |-> "DIDNOTFIND", fx |-> {},
                      log |-> << >>, asserts |-> {}])

\* variant: a record activated again is not marked for propagation
consActiveVehicleAss_nomark(consdata) ==
    [cd |-> consdata,
     reprop |-> FALSE,
     asserts |-> IF consdata.npropagatedvars <= nvars THEN {} ELSE {"active_npropagated"}]

\* variant: every activation marks the record and requests repropagation
consActiveVehicleAss_always(consdata) ==
    [cd |-> [consdata EXCEPT !.propagated = FALSE],
     reprop |-> TRUE,
     asserts |-> IF consdata.npropagatedvars <= nvars THEN {} ELSE {"active_npropagated"}]

\* returns the record and whether SCIPrepropagateNode was called
consActiveVehicleAss(consdata) ==
    [cd |-> IF consdata.npropagatedvars # nvars
            THEN [consdata EXCEPT !.propagated = FALSE] ELSE consdata,
     reprop |-> consdata.npropagatedvars # nvars,
     asserts |-> IF consdata.npropagatedvars <= nvars THEN {} ELSE {"active_npropagated"}]

\* variant: deactivation sets the cursor back to the first column
consDeactiveVehicleAss_reset(consdata, nchildren) ==
    [cd |-> [consdata EXCEPT !.npropagatedvars = 0],
     asserts |-> IF consdata.propagated \/ nchildren = 0 THEN {}
                 ELSE {"deactive_propagated"}]

\* variant: deactivation also marks the record propagated
consDeactiveVehicleAss_marks(consdata, nchildren) ==
    [cd |-> [consdata EXCEPT !.npropagatedvars = nvars, !.propagated = TRUE],
     asserts |-> IF consdata.propagated \/ nchildren = 0 THEN {}
                 ELSE {"deactive_propagated"}]

consDeactiveVehicleAss(consdata, nchildren) ==
    [cd |-> [consdata EXCEPT !.npropagatedvars = nvars],
     asserts |-> IF consdata.propagated \/ nchildren = 0 THEN {}
                 ELSE {"deactive_propagated"}]

(* ------------------- pricer_vrp.c: restricted graph -------------------- *)
InWindow(v, d) == \E k \in 1 .. Len(timeWindows[v]) : timeWindows[v][k] = d

\* pricerdata as left by SCIPpricerVrpActivate
ActivateGraph ==
    [isForbidden |-> [i \in Vertices |-> [j \in Vertices |-> FALSE]],
     toDepot |-> [i \in Customers |-> TRUE],
     timetable |-> [i \in Vertices |-> [d \in Days |-> InWindow(i, d)]],
     eC |-> [i \in Vertices |-> IF Len(timeWindows[i]) = 1 THEN timeWindows[i][1] ELSE -1],
     nEC |-> [d \in Days |-> Cardinality({i \in Vertices :
                                 Len(timeWindows[i]) = 1 /\ timeWindows[i][1] = d})],
     neighbors |-> modelNeighbors,
     alias |-> TRUE,
     freedbase |-> FALSE]

\* variant: an enforced arc forbids the other arcs out of its tail only
ArcStep_rowonly(st, cons) ==
    LET tail == cons.tail
        head == cons.head
    IN  IF cons.type = PROHIBIT
        THEN [st EXCEPT !.isForbidden[tail][head] = TRUE,
                        !.toDepot = IF head = nC - 1 /\ tail \in Customers
                                    THEN [@ EXCEPT ![tail] = FALSE] ELSE @]
        ELSE [st EXCEPT !.successor[tail] = head,
                        !.predecessor[head] = tail,
                        !.toDepot = IF head # nC - 1 /\ tail # nC - 1
                                    THEN [@ EXCEPT ![tail] = FALSE] ELSE @,
                        !.isForbidden = [i \in Vertices |-> [j \in Vertices |->
                              @[i][j] \/ (i = tail /\ j # head)]]]

\* variant: an enforced arc that starts or ends at the depot forbids nothing
ArcStep_depotfree(st, cons) ==
    LET tail == cons.tail
        head == cons.head
    IN  IF cons.type = PROHIBIT
        THEN [st EXCEPT !.isForbidden[tail][head] = TRUE,
                        !.toDepot = IF head = nC - 1 /\ tail \in Customers
                                    THEN [@ EXCEPT ![tail] = FALSE] ELSE @]
        ELSE IF head # nC - 1 /\ tail # nC - 1
        THEN [st EXCEPT !.successor[tail] = head,
                        !.predecessor[head] = tail,
                        !.toDepot[tail] = FALSE,
                        !.isForbidden = [i \in Vertices |-> [j \in Vertices |->
                              @[i][j] \/ (i = tail /\ j # head)
                                      \/ (j = head /\ i # tail)]]]
        ELSE [st EXCEPT !.successor[tail] = head, !.predecessor[head] = tail]

\* st = [isForbidden, toDepot, successor, predecessor, ret, asserts]
ArcStep(st, cons) ==
    LET tail == cons.tail
        head == cons.head
    IN  IF cons.type = PROHIBIT
        THEN [st EXCEPT !.asserts = IF st.isForbidden[tail][head]
                                    THEN @ \cup {"arc_alreadyforbidden"} ELSE @,
                        !.isForbidden[tail][head] = TRUE,
                        !.toDepot = IF head = nC - 1 /\ tail \in Customers
                                    THEN [@ EXCEPT ![tail] = FALSE] ELSE @]
        ELSE IF cons.type = ENFORCE
        THEN LET a == (IF tail = nC - 1 \/ st.successor[tail] = -1 THEN {}
                       ELSE {"arc_successor"})
                      \cup (IF head = nC - 1 \/ st.predecessor[head] = -1 THEN {}
                            ELSE {"arc_predecessor"})
                 s1 == [st EXCEPT !.asserts = @ \cup a,
                                  !.successor[tail] = head,
                                  !.predecessor[head] = tail]
             IN  IF head # nC - 1 /\ tail # nC - 1
                 THEN [s1 EXCEPT !.toDepot[tail] = FALSE,
                                 !.isForbidden = [i \in Vertices |-> [j \in Vertices |->
                                       @[i][j] \/ (i = tail /\ j # head)
                                               \/ (j = head /\ i # tail)]]]
                 ELSE IF head = nC - 1
                 THEN [s1 EXCEPT !.isForbidden = [i \in Vertices |-> [j \in Vertices |->
                                       @[i][j] \/ (i = tail /\ j < nC - 1)]]]
                 ELSE [s1 EXCEPT !.isForbidden = [i \in Vertices |-> [j \in Vertices |->
                                       @[i][j] \/ (j = head /\ i < nC - 1)]]]
        ELSE [st EXCEPT !.ret = "INVALIDDATA"]

RECURSIVE ArcLoop(_, _, _)
ArcLoop(st, arcs, i) ==
    IF i > Len(arcs) \/ st.ret # "OKAY" THEN st
    ELSE ArcLoop(ArcStep(st, arcs[i]), arcs, i + 1)

\* variant: toDepot is left as it was reset
setArcMatrix_todepotkept(arcs) ==
    [ArcLoop([isForbidden |-> [i \in Vertices |-> [j \in Vertices |-> FALSE]],
              toDepot |-> [i \in Customers |-> TRUE],
              successor |-> [i \in Vertices |-> -1],
              predecessor |-> [i \in Vertices |-> -1],
              ret |-> "OKAY", asserts |-> {}], arcs, 1)
        EXCEPT !.toDepot = [i \in Customers |-> TRUE]]

\* variant: a PROHIBIT record never finds its arc forbidden already
setArcMatrix_unasserted(arcs) ==
    [ArcLoop([isForbidden |-> [i \in Vertices |-> [j \in Vertices |-> FALSE]],
              toDepot |-> [i \in Customers |-> TRUE],
              successor |-> [i \in Vertices |-> -1],
              predecessor |-> [i \in Vertices |-> -1],
              ret |-> "OKAY", asserts |-> {}], arcs, 1)
        EXCEPT !.asserts = @ \ {"arc_alreadyforbidden"}]

setArcMatrix(arcs) ==
    ArcLoop([isForbidden |-> [i \in Vertices |-> [j \in Vertices |-> FALSE]],
             toDepot |-> [i \in Customers |-> TRUE],
             successor |-> [i \in Vertices |-> -1],
             predecessor |-> [i \in Vertices |-> -1],
             ret |-> "OKAY", asserts |-> {}], arcs, 1)

\* variant: an ENFORCE record sets its day and leaves the other days as they are
TimeTableStep_keepdays(st, cons) ==
    IF cons.type = VA_PROHIBIT
    THEN [st EXCEPT !.timetable[cons.customer][cons.day] = FALSE]
    ELSE IF cons.type = VA_ENFORCE
    THEN [st EXCEPT !.timetable[cons.customer][cons.day] = TRUE]
    ELSE [st EXCEPT !.ret = "INVALIDDATA"]

\* st = [timetable, ret, asserts]
TimeTableStep(st, cons) ==
    LET customer == cons.customer
        day == cons.day
        a == IF customer >= 0 /\ customer < nC - 1 THEN {} ELSE {"tt_customerrange"}
    IN  IF cons.type = VA_PROHIBIT
        THEN [st EXCEPT !.asserts = @ \cup a \cup (IF st.timetable[customer][day] THEN {}
                                                  ELSE {"tt_prohibit_available"}),
                        !.timetable[customer][day] = FALSE]
        ELSE IF cons.type = VA_ENFORCE
        THEN [st EXCEPT !.asserts = @ \cup a \cup (IF st.timetable[customer][day] THEN {}
                                                  ELSE {"tt_enforce_available"}),
                        !.timetable[customer] = [d \in Days |->
                              IF d = day THEN TRUE
                              ELSE IF InWindow(customer, d) THEN FALSE ELSE @[d]]]
        ELSE [st EXCEPT !.ret = "INVALIDDATA"]

RECURSIVE TimeTableLoop(_, _, _)
TimeTableLoop(st, vas, i) ==
    IF i > Len(vas) \/ st.ret # "OKAY" THEN st
    ELSE TimeTableLoop(TimeTableStep(st, vas[i]), vas, i + 1)

\* variant: the timetable is not reset from the base windows
setTimeTable_noreset(vas) ==
    TimeTableLoop([timetable |-> graph.timetable, ret |-> "OKAY", asserts |-> {}], vas, 1)

setTimeTable(vas) ==
    TimeTableLoop([timetable |-> [i \in Vertices |-> [d \in Days |-> InWindow(i, d)]],
                   ret |-> "OKAY", asserts |-> {}], vas, 1)

\* variant: every day of the window list is counted, available or not
RECURSIVE WindowScan_all(_, _, _, _)
WindowScan_all(tt, customer, k, st) ==
    IF k > Len(timeWindows[customer]) THEN st
    ELSE WindowScan_all(tt, customer, k + 1,
                        [count |-> st.count + 1, day |-> timeWindows[customer][k]])

\* st = [count, day]: the scan of one customer's window list
RECURSIVE WindowScan(_, _, _, _)
WindowScan(tt, customer, k, st) ==
    IF k > Len(timeWindows[customer]) THEN st
    ELSE LET d == timeWindows[customer][k]
         IN  WindowScan(tt, customer, k + 1,
                        IF tt[customer][d] THEN [count |-> st.count + 1, day |-> d] ELSE st)

\* variant: eC of a customer with several days left keeps its old value
setEnforcedCustomers_keepold(tt, oldeC) ==
    LET sc(c) == WindowScan(tt, c, 1, [count |-> 0, day |-> -1])
        eC == [i \in Vertices |-> IF i < nC - 1 /\ sc(i).count = 1 THEN sc(i).day
                                  ELSE oldeC[i]]
    IN  [eC |-> eC,
         nEC |-> [d \in Days |-> Cardinality({i \in Customers : eC[i] = d})]]

\* returns [eC, nEC]; eC of the depot keeps its old value
setEnforcedCustomers(tt, oldeC) ==
    LET sc(c) == WindowScan(tt, c, 1, [count |-> 0, day |-> -1])
        eC == [i \in Vertices |-> IF i < nC - 1
                                  THEN (IF sc(i).count = 1 THEN sc(i).day ELSE -1)
                                  ELSE oldeC[i]]
    IN  [eC |-> eC,
         nEC |-> [d \in Days |-> Cardinality({i \in Customers : eC[i] = d})]]

\* variant: the old lists are left in place
clearNeighbors_keep(g, lastid) ==
    [neighbors |-> g.neighbors, alias |-> g.alias, freedbase |-> g.freedbase]

\* returns [neighbors, alias, freedbase]
clearNeighbors(g, lastid) ==
    [neighbors |-> [i \in Vertices |-> [d \in Days |-> << >>]],
     alias |-> FALSE,
     freedbase |-> g.freedbase
                   \/ (lastid # 1 /\ g.alias
                       /\ \E i \in Vertices, d \in Days : g.neighbors[i][d] # << >>)]

\* variant: forbidden arcs are not skipped
setCurrentNeighborhood_timeonly(old, tt, isForbidden) ==
    [i \in Vertices |-> [j \in Days |->
        IF i < nC - 1 /\ ~tt[i][j] THEN old[i][j]
        ELSE LET copy == SelectSeq(modelNeighbors[i][j], LAMBDA nb : tt[nb][j])
             IN  IF copy = << >> THEN old[i][j] ELSE copy]]

\* variant: the days on which the customer itself is unavailable are not skipped
setCurrentNeighborhood_rowkept(old, tt, isForbidden) ==
    [i \in Vertices |-> [j \in Days |->
        LET copy == SelectSeq(modelNeighbors[i][j],
                              LAMBDA nb : tt[nb][j] /\ ~isForbidden[i][nb])
        IN  IF copy = << >> THEN old[i][j] ELSE copy]]

\* old: the lists left by clearNeighbors; a list pointer is written only when the
\* first neighbor passes the filter
setCurrentNeighborhood(old, tt, isForbidden) ==
    [i \in Vertices |-> [j \in Days |->
        IF i < nC - 1 /\ ~tt[i][j] THEN old[i][j]
        ELSE LET copy == SelectSeq(modelNeighbors[i][j],
                                   LAMBDA nb : tt[nb][j] /\ ~isForbidden[i][nb])
             IN  IF copy = << >> THEN old[i][j] ELSE copy]]

\* returns [graph, ret, asserts]; a failing step returns at once (SCIP_CALL)
set_current_graph(g, arcs, vas, lastid) ==
    LET am == setArcMatrix(arcs)
        g1 == [g EXCEPT !.isForbidden = am.isForbidden, !.toDepot = am.toDepot]
        tt == setTimeTable(vas)
        g2 == [g1 EXCEPT !.timetable = tt.timetable]
        ec == setEnforcedCustomers(tt.timetable, g.eC)
        cl == clearNeighbors(g2, lastid)
        g3 == [g2 EXCEPT !.eC = ec.eC, !.nEC = ec.nEC,
                         !.neighbors = setCurrentNeighborhood(cl.neighbors, tt.timetable,
                                                             am.isForbidden),
                         !.alias = cl.alias, !.freedbase = cl.freedbase]
    IN  IF am.ret # "OKAY" THEN [graph |-> g1, ret |-> am.ret, asserts |-> am.asserts]
        ELSE IF tt.ret # "OKAY"
        THEN [graph |-> g2, ret |-> tt.ret, asserts |-> am.asserts \cup tt.asserts]
        ELSE [graph |-> g3, ret |-> "OKAY", asserts |-> am.asserts \cup tt.asserts]

(* ---------------- vehicleass_branching.c: branching rule --------------- *)
\* lp[v]: LP value of column v-1 in units of 1/LPDenom
IsFractional(x) == x > 0 /\ LPDenom - x > 0

\* st = [VeAssVals, numOfDays]: the aggregation loop over the columns
RECURSIVE TourLoop(_, _, _, _)
TourLoop(st, todo, day, lpval) ==
    IF todo = {} THEN st
    ELSE LET c == CHOOSE x \in todo : \A y \in todo : x <= y
             s1 == [st EXCEPT !.numOfDays[c] = IF st.VeAssVals[c][day] = 0 THEN @ + 1 ELSE @,
                              !.VeAssVals[c][day] = @ + lpval]
         IN  TourLoop(s1, todo \ {c}, day, lpval)

RECURSIVE AggLoop(_, _, _)
AggLoop(st, lp, i) ==
    IF i > Len(cols) THEN st
    ELSE IF IsFractional(lp[i]) /\ cols[i].tour # {}
    THEN AggLoop(TourLoop(st, cols[i].tour, cols[i].day, lp[i]), lp, i + 1)
    ELSE AggLoop(st, lp, i + 1)

\* the sum of lp over the columns from i on that visit customer c on day d; with
\* fractional set, over those of them with a fractional value
RECURSIVE ColSum(_, _, _, _, _)
ColSum(lp, c, d, i, fractional) ==
    IF i > Len(cols) THEN 0
    ELSE (IF c \in cols[i].tour /\ cols[i].day = d /\ (~fractional \/ IsFractional(lp[i]))
          THEN lp[i] ELSE 0) + ColSum(lp, c, d, i + 1, fractional)

\* variant: the columns with value one are aggregated too
VehAssValues_all(lp) ==
    [VeAssVals |-> [i \in Vertices |-> [j \in Days |-> ColSum(lp, i, j, 1, FALSE)]],
     numOfDays |-> [i \in Vertices |->
                       Cardinality({j \in Days : ColSum(lp, i, j, 1, FALSE) > 0})],
     denom |-> LPDenom]

\* returns [VeAssVals, numOfDays, denom]: the weights are in units of 1/denom
VehAssValues(lp) ==
    AggLoop([VeAssVals |-> [i \in Vertices |-> [j \in Days |-> 0]],
             numOfDays |-> [i \in Vertices |-> 0], denom |-> LPDenom], lp, 1)

Abs(x) == IF x < 0 THEN -x ELSE x

\* variant: a weight of exactly 0.5 is skipped like an integral one
RECURSIVE SearchLoop_skiphalf(_, _, _, _)
SearchLoop_skiphalf(agg, st, i, j) ==
    IF i > nC - 1 THEN st
    ELSE IF j > nDays - 1 THEN SearchLoop_skiphalf(agg, st, i + 1, 0)
    ELSE LET cur_val == Abs(agg.denom - 2 * agg.VeAssVals[i][j])
         IN  IF cur_val = agg.denom \/ cur_val = 0
             THEN SearchLoop_skiphalf(agg, st, i, j + 1)
             ELSE IF cur_val > st.bestval THEN SearchLoop_skiphalf(agg, st, i, j + 1)
             ELSE IF cur_val = st.bestval /\ agg.numOfDays[i] <= st.bestnum
             THEN SearchLoop_skiphalf(agg, st, i, j + 1)
             ELSE SearchLoop_skiphalf(agg, [bestval |-> cur_val,
                                            bestnum |-> agg.numOfDays[i],
                                            best_cust |-> i, best_day |-> j], i, j + 1)

\* variant: on a full tie the later pair replaces the earlier one
RECURSIVE SearchLoop_lasttie(_, _, _, _)
SearchLoop_lasttie(agg, st, i, j) ==
    IF i > nC - 1 THEN st
    ELSE IF j > nDays - 1 THEN SearchLoop_lasttie(agg, st, i + 1, 0)
    ELSE LET cur_val == Abs(agg.denom - 2 * agg.VeAssVals[i][j])
         IN  IF cur_val = agg.denom THEN SearchLoop_lasttie(agg, st, i, j + 1)
             ELSE IF cur_val > st.bestval THEN SearchLoop_lasttie(agg, st, i, j + 1)
             ELSE IF cur_val = st.bestval /\ agg.numOfDays[i] < st.bestnum
             THEN SearchLoop_lasttie(agg, st, i, j + 1)
             ELSE SearchLoop_lasttie(agg, [bestval |-> cur_val,
                                           bestnum |-> agg.numOfDays[i],
                                           best_cust |-> i, best_day |-> j], i, j + 1)

\* st = [bestval, bestnum, best_cust, best_day]; values doubled and in units of
\* 1/agg.denom: 0.5 is agg.denom
RECURSIVE SearchLoop(_, _, _, _)
SearchLoop(agg, st, i, j) ==
    IF i > nC - 1 THEN st
    ELSE IF j > nDays - 1 THEN SearchLoop(agg, st, i + 1, 0)
    ELSE LET cur_val == Abs(agg.denom - 2 * agg.VeAssVals[i][j])
         IN  IF cur_val = agg.denom THEN SearchLoop(agg, st, i, j + 1)
             ELSE IF cur_val > st.bestval THEN SearchLoop(agg, st, i, j + 1)
             ELSE IF cur_val = st.bestval /\ agg.numOfDays[i] <= st.bestnum
             THEN SearchLoop(agg, st, i, j + 1)
             ELSE SearchLoop(agg, [bestval |-> cur_val, bestnum |-> agg.numOfDays[i],
                                   best_cust |-> i, best_day |-> j], i, j + 1)

branchSelect(lp) ==
    SearchLoop(VehAssValues(lp),
               [bestval |-> LPDenom, bestnum |-> 0, best_cust |-> -1, best_day |-> -1], 0, 0)

(* ------------------------ the engine's inputs -------------------------- *)
RECURSIVE SeqOfSet(_)
SeqOfSet(S) == IF S = {} THEN << >>
               ELSE LET m == CHOOSE x \in S : \A y \in S : x <= y
                    IN  <<m>> \o SeqOfSet(S \ {m})

\* base instances: the depot is open every day; customer 0 is available every day
\* and customer 1 on day 0 only, or customers 0 and 1 are available on days 0
\* and 1; further customers are available every day
BaseWindows ==
    {[v \in Vertices |-> SeqOfSet(IF v = 0 THEN w[1] ELSE IF v = 1 THEN w[2] ELSE Days)] :
        w \in {<<Days, {0}>>, <<{0, 1}, {0, 1}>>}}

BaseNeighbors(tw) ==
    LET has(v, d) == \E k \in 1 .. Len(tw[v]) : tw[v][k] = d
    IN  [i \in Vertices |-> [d \in Days |->
            IF i # Depot /\ ~has(i, d) THEN << >>
            ELSE SeqOfSet({j \in Customers : j # i /\ has(j, d)})]]

\* the columns of the initial restricted master problem: one single-customer tour
\* for every customer and every day of its window list
InitialCols(tw) ==
    LET has(c, d) == \E k \in 1 .. Len(tw[c]) : tw[c][k] = d
        keys == SeqOfSet({x \in 0 .. ((nC - 1) * nDays - 1) : has(x \div nDays, x % nDays)})
    IN  [i \in 1 .. Len(keys) |-> [tour |-> {keys[i] \div nDays}, day |-> keys[i] % nDays]]

MaxCols == Len(InitialCols(timeWindows)) + MaxPriced

RECURSIVE SumLp(_, _, _)
SumLp(lp, c, i) ==
    IF i > Len(cols) THEN 0
    ELSE (IF c \in cols[i].tour THEN lp[i] ELSE 0) + SumLp(lp, c, i + 1)

\* LP solutions of the restricted master problem at the current node: local bounds
\* and the set partitioning constraints of the customers
LPFeasible(lp) ==
    /\ \A i \in 1 .. Len(cols) :
          /\ UbLocal2(i - 1) < 1 => lp[i] = 0
          /\ LbLocal2(i - 1) > 1 => lp[i] = LPDenom
    /\ \A c \in Customers : SumLp(lp, c, 1) = LPDenom

\* tours the labeling algorithm can return on the restricted graph g
OracleTours(g) ==
    {col \in [tour : {t \in SUBSET Customers : t # {} /\ Cardinality(t) <= MaxTourLen},
              day : Days] :
        /\ \A c \in col.tour : g.timetable[c][col.day]
        /\ \A c \in Customers : g.eC[c] = col.day => c \in col.tour
        /\ col \notin Range(cols)}

Descendants(n) == {m \in 1 .. Len(parent) : n \in PathSet(m)}

\* what a callback did: tested - the cache test was reached, built - the builder
\* ran, labeled - the labeling algorithm ran, result - *result of propagation,
\* ret - the return code, arg - verdicts passed to a creation or the return code
\* of the builder, log - the columns scanned by propagation, workers - the
\* labeling workers of the call that have not returned
Called(op) == [op |-> op, tested |-> FALSE, built |-> FALSE, labeled |-> FALSE,
               result |-> "NONE", ret |-> "OKAY", arg |-> << >>, log |-> << >>,
               workers |-> {}]

(* ------------------------------ actions -------------------------------- *)
Init ==
    /\ timeWindows \in BaseWindows
    /\ modelNeighbors = BaseNeighbors(timeWindows)
    /\ cols = InitialCols(timeWindows)
    /\ fix0 = {}
    /\ fix1 = {}
    /\ conss = << >>
    /\ arcconss = << >>
    /\ parent = <<0>>
    /\ open = {}
    /\ cur = RootId
    /\ target = RootId
    /\ pc = "solve"
    /\ graph = ActivateGraph
    /\ lastnodeid = RootId
    /\ call = Called("init")
    /\ asserts = {}
    /\ nbuilt = 0

\* node selection: the engine picks an open leaf, which becomes the focus node,
\* and starts the path switch
SelectNode(leaves) ==
    IF leaves = {}
    THEN /\ pc' = "done"
         /\ open' = leaves
         /\ target' = target
         /\ nbuilt' = nbuilt
    ELSE \E t \in leaves :
            /\ target' = t
            /\ open' = leaves \ {t}
            /\ pc' = "switch"
            /\ nbuilt' = 0

\* one consPropVehicleAss call on the active records: the zero-fixings are stored
\* in the deepest active node
PropagateCall ==
    LET r == consPropVehicleAss(ActiveIdx)
    IN  /\ conss' = r.conss
        /\ fix0' = fix0 \cup {<<cur, v>> : v \in r.fx}
        /\ asserts' = asserts \cup r.asserts
        /\ call' = [Called("prop") EXCEPT !.log = r.log, !.result = r.result]

\* propagation by the engine (the handler needs constraints): of a node of the path
\* marked for repropagation, of the focus node, and in the focus node a further
\* round after a round that reduced domains; a cutoff prunes the node
Propagate ==
    /\ \/ pc \in {"reprop", "focusprop"}
       \/ pc = "solve" /\ call.op = "prop" /\ call.result = "REDUCEDDOM"
    /\ Len(ActiveIdx) > 0
    /\ PropagateCall
    /\ IF call'.result = "CUTOFF"
       THEN SelectNode(open \ Descendants(cur))
       ELSE /\ pc' = (IF pc = "reprop" THEN "switch" ELSE "solve")
            /\ UNCHANGED <<open, target, nbuilt>>
    /\ UNCHANGED <<timeWindows, modelNeighbors, cols, fix1, arcconss, parent, cur,
                   graph, lastnodeid>>

\* the engine fixes a column to one at the focus node
FixLb ==
    /\ pc = "solve"
    /\ Cardinality(fix1) < MaxLbFix
    /\ \E v \in 0 .. (nvars - 1) :
          /\ UbLocal2(v) > 1 /\ LbLocal2(v) < 1
          /\ fix1' = fix1 \cup {<<cur, v>>}
    /\ call' = Called("fixlb")
    /\ UNCHANGED <<timeWindows, modelNeighbors, cols, fix0, conss, arcconss, parent,
                   open, cur, target, pc, graph, lastnodeid, asserts, nbuilt>>

\* variant: the cache tag is ignored and the graph is built on every request
Rebuild_always ==
    LET b == set_current_graph(graph, ActiveArcs, ActiveVAs, lastnodeid)
    IN  [graph |-> b.graph, asserts |-> b.asserts, built |-> TRUE, ret |-> b.ret]

\* the cache test of both pricing callbacks and the set_current_graph call behind
\* it, whose return code is dropped
Rebuild ==
    LET b == set_current_graph(graph, ActiveArcs, ActiveVAs, lastnodeid)
    IN  IF lastnodeid # cur
        THEN [graph |-> b.graph, asserts |-> b.asserts, built |-> TRUE, ret |-> b.ret]
        ELSE [graph |-> graph, asserts |-> {}, built |-> FALSE, ret |-> "OKAY"]

CacheTest ==
    /\ graph' = Rebuild.graph
    /\ lastnodeid' = cur
    /\ asserts' = asserts \cup Rebuild.asserts
    /\ nbuilt' = IF Rebuild.built /\ nbuilt < MaxNodes THEN nbuilt + 1 ELSE nbuilt

\* a labeling call on graph g: it may add a column
Labeling(g) ==
    \/ /\ nvars < MaxCols
       /\ \E col \in OracleTours(g) : cols' = Append(cols, col)
    \/ cols' = cols

\* heuristicPricing, run while the root is the only node: it adds a column or not
heuristicPricing(g) ==
    /\ cur = RootId
    /\ nvars < MaxCols
    /\ \E col \in OracleTours(g) : cols' = Append(cols, col)

pricerRedcostVrp ==
    /\ pc = "solve"
    /\ \/ /\ call' = Called("price")
          /\ UNCHANGED <<cols, graph, lastnodeid, asserts, nbuilt>>
       \/ /\ CacheTest
          /\ \/ /\ heuristicPricing(Rebuild.graph)
                /\ call' = [Called("price") EXCEPT !.tested = TRUE,
                               !.built = Rebuild.built, !.arg = <<Rebuild.ret>>]
             \/ /\ Labeling(Rebuild.graph)
                /\ call' = [Called("price") EXCEPT !.tested = TRUE,
                               !.built = Rebuild.built, !.arg = <<Rebuild.ret>>,
                               !.labeled = TRUE]
    /\ UNCHANGED <<timeWindows, modelNeighbors, fix0, fix1, conss, arcconss, parent,
                   open, cur, target, pc>>

pricerFarkasVrp ==
    /\ pc = "solve"
    /\ \/ /\ call' = Called("price")
          /\ UNCHANGED <<cols, graph, lastnodeid, asserts, nbuilt>>
       \/ /\ heuristicPricing(graph)
          /\ call' = Called("price")
          /\ UNCHANGED <<graph, lastnodeid, asserts, nbuilt>>
       \/ /\ CacheTest
          /\ Labeling(Rebuild.graph)
          /\ call' = [Called("price") EXCEPT !.tested = TRUE, !.built = Rebuild.built,
                         !.arg = <<Rebuild.ret>>, !.labeled = TRUE]
    /\ UNCHANGED <<timeWindows, modelNeighbors, fix0, fix1, conss, arcconss, parent,
                   open, cur, target, pc>>

\* variant: both records are attached to the first child
branchExeclpVehicleAss_samechild ==
    /\ pc = "solve"
    /\ Len(parent) + 2 <= MaxNodes
    /\ \E lp \in [1 .. Len(cols) -> 0 .. LPDenom] :
          /\ LPFeasible(lp)
          /\ LET b == branchSelect(lp)
                 childprohibit == Len(parent) + 1
                 childenforce == Len(parent) + 2
             IN  /\ b.best_cust >= 0
                 /\ asserts' = asserts \cup (IF b.best_cust < nC - 1 THEN {}
                                             ELSE {"branch_best_cust"})
                 /\ parent' = parent \o <<cur, cur>>
                 /\ conss' = conss \o
                      <<consdataCreate(b.best_cust, b.best_day, VA_PROHIBIT, childprohibit),
                        consdataCreate(b.best_cust, b.best_day, VA_ENFORCE, childprohibit)>>
                 /\ SelectNode(open \cup {childprohibit, childenforce})
                 /\ call' = [Called("branch") EXCEPT
                                !.arg = <<lp, VehAssValues(lp).VeAssVals>>]
    /\ UNCHANGED <<timeWindows, modelNeighbors, cols, fix0, fix1, arcconss, cur,
                   graph, lastnodeid>>

\* branchExeclpVehicleAss on a fractional LP solution of the focus node; the call
\* notes the solution and the aggregated weights
branchExeclpVehicleAss ==
    /\ pc = "solve"
    /\ Len(parent) + 2 <= MaxNodes
    /\ \E lp \in [1 .. Len(cols) -> 0 .. LPDenom] :
          /\ LPFeasible(lp)
          /\ LET b == branchSelect(lp)
                 childprohibit == Len(parent) + 1
                 childenforce == Len(parent) + 2
             IN  /\ b.best_cust >= 0
                 /\ asserts' = asserts \cup (IF b.best_cust < nC - 1 THEN {}
                                             ELSE {"branch_best_cust"})
                 /\ parent' = parent \o <<cur, cur>>
                 /\ conss' = conss \o
                      <<consdataCreate(b.best_cust, b.best_day, VA_PROHIBIT, childprohibit),
                        consdataCreate(b.best_cust, b.best_day, VA_ENFORCE, childenforce)>>
                 /\ SelectNode(open \cup {childprohibit, childenforce})
                 /\ call' = [Called("branch") EXCEPT
                                !.arg = <<lp, VehAssValues(lp).VeAssVals>>]
    /\ UNCHANGED <<timeWindows, modelNeighbors, cols, fix0, fix1, arcconss, cur,
                   graph, lastnodeid>>

\* the focus node is finished without branching
FinishNode ==
    /\ pc = "solve"
    /\ SelectNode(open)
    /\ call' = Called("finish")
    /\ UNCHANGED <<timeWindows, modelNeighbors, cols, fix0, fix1, conss, arcconss, parent,
                   cur, graph, lastnodeid, asserts>>

\* path switch, upward: the records of the deepest active node are deactivated
DeactivateNode ==
    /\ pc = "switch"
    /\ cur \notin PathSet(target)
    /\ LET d(i) == consDeactiveVehicleAss(conss[i], 0)
           mine == {i \in 1 .. Len(conss) : conss[i].node = cur}
       IN  /\ conss' = [i \in 1 .. Len(conss) |-> IF i \in mine THEN d(i).cd ELSE conss[i]]
           /\ asserts' = asserts \cup UNION {d(i).asserts : i \in mine}
    /\ cur' = parent[cur]
    /\ call' = Called("deactive")
    /\ UNCHANGED <<timeWindows, modelNeighbors, cols, fix0, fix1, arcconss, parent, open,
                   target, pc, graph, lastnodeid, nbuilt>>

\* path switch, downward: the records of the next node of the path are activated
ActivateNode ==
    /\ pc = "switch"
    /\ cur \in PathSet(target)
    /\ cur # target
    /\ LET next == CHOOSE n \in PathSet(target) : parent[n] = cur
           a(i) == consActiveVehicleAss(conss[i])
           mine == {i \in 1 .. Len(conss) : conss[i].node = next}
       IN  /\ conss' = [i \in 1 .. Len(conss) |-> IF i \in mine THEN a(i).cd ELSE conss[i]]
           /\ asserts' = asserts \cup UNION {a(i).asserts : i \in mine}
           /\ cur' = next
           /\ pc' = IF next = target THEN "focusprop"
                    ELSE IF \E i \in mine : a(i).reprop THEN "reprop" ELSE "switch"
    /\ call' = Called("active")
    /\ UNCHANGED <<timeWindows, modelNeighbors, cols, fix0, fix1, arcconss, parent, open,
                   target, graph, lastnodeid, nbuilt>>

Next ==
    \/ Propagate
    \/ FixLb
    \/ pricerRedcostVrp
    \/ pricerFarkasVrp
    \/ branchExeclpVehicleAss
    \/ FinishNode
    \/ DeactivateNode
    \/ ActivateNode

Spec == Init /\ [][Next]_vars

(* ------------- propagation on arbitrary records and columns ------------ *)
\* number of columns of the propagation inputs
MaxPropCols == 2

\* single-customer tours
PropTours == {{c} : c \in Customers}

\* the first and the last day
PropDays == {0, nDays - 1}

\* cursor and flag of a record that has been active before
PropCursors == {[npropagatedvars |-> n, propagated |-> b] :
                   n \in 0 .. MaxPropCols, b \in BOOLEAN}

\* inputs of consPropVehicleAss: any columns with any bounds; one or two active
\* records on a chain below the root, the deeper one activated for the first time
\* and on another (customer, day) pair, not a second ENFORCE of the same customer
InitProp ==
    /\ timeWindows = [v \in Vertices |-> SeqOfSet(Days)]
    /\ modelNeighbors = BaseNeighbors(timeWindows)
    /\ cols \in [1 .. MaxPropCols -> [tour : PropTours, day : PropDays]]
    /\ \E z \in SUBSET (0 .. (MaxPropCols - 1)), o \in SUBSET (0 .. (MaxPropCols - 1)) :
          /\ z \cap o = {}
          /\ fix0 = {<<RootId, v>> : v \in z}
          /\ fix1 = {<<RootId, v>> : v \in o}
    /\ \E c1 \in Customers, d1 \in PropDays, t1 \in {VA_PROHIBIT, VA_ENFORCE}, k \in PropCursors :
          LET first == [consdataCreate(c1, d1, t1, 2) EXCEPT
                           !.npropagatedvars = k.npropagatedvars,
                           !.propagated = k.propagated]
          IN  \/ /\ conss = <<first>>
                 /\ parent = <<0, 1>>
                 /\ cur = 2
              \/ \E c2 \in Customers, d2 \in PropDays, t2 \in {VA_PROHIBIT, VA_ENFORCE} :
                    /\ <<c2, d2>> # <<c1, d1>>
                    /\ ~(c2 = c1 /\ t1 = VA_ENFORCE /\ t2 = VA_ENFORCE)
                    /\ conss = <<first, consdataCreate(c2, d2, t2, 3)>>
                    /\ parent = <<0, 1, 2>>
                    /\ cur = 3
    /\ arcconss = << >>
    /\ open = {}
    /\ target = cur
    /\ pc = "call"
    /\ graph = ActivateGraph
    /\ lastnodeid = RootId
    /\ call = Called("init")
    /\ asserts = {}
    /\ nbuilt = 0

\* the handler is called; it is called again unless it reported a cutoff
PropagateAny ==
    /\ pc = "call"
    /\ PropagateCall
    /\ pc' = IF call'.result = "CUTOFF" THEN "done" ELSE "call"
    /\ UNCHANGED <<timeWindows, modelNeighbors, cols, fix1, arcconss, parent, open, cur,
                   target, graph, lastnodeid, nbuilt>>

NextProp == PropagateAny

SpecProp == InitProp /\ [][NextProp]_vars

(* ------------------ records created with any verdict ------------------- *)
\* largest number of nodes when records are created by a caller
MaxCreatedNodes == 3

VerdictArgs == {VA_PROHIBIT, VA_ENFORCE, VA_OTHER}

\* the outcomes of SCIPcreateConsVehicleAss: the verdict is only asserted, so a
\* build with assertions stops the program there and a build without them creates
\* the record; the return code is SCIP_OKAY whenever the call returns
SCIPcreateConsVehicleAss(customer, day, type, node) ==
    LET made == [abort |-> FALSE, ret |-> "OKAY",
                 cd |-> <<consdataCreate(customer, day, type, node)>>]
    IN  IF type = VA_ENFORCE \/ type = VA_PROHIBIT
        THEN {made}
        ELSE {made, [abort |-> TRUE, ret |-> "ABORT", cd |-> << >>]}

\* a caller creates two children of the focus node with a record each, as the
\* branching rule does, but with any verdict values
CreateChildren ==
    /\ pc = "solve"
    /\ Len(parent) + 2 <= MaxCreatedNodes
    /\ \E customer \in Customers, day \in Days, t1 \in VerdictArgs, t2 \in VerdictArgs :
          \E o1 \in SCIPcreateConsVehicleAss(customer, day, t1, Len(parent) + 1),
             o2 \in SCIPcreateConsVehicleAss(customer, day, t2, Len(parent) + 2) :
             IF o1.abort \/ o2.abort
             THEN /\ conss' = conss \o o1.cd
                  /\ call' = [Called("create") EXCEPT !.ret = "ABORT",
                                 !.arg = IF o1.abort THEN <<t1>> ELSE <<t1, t2>>]
                  /\ pc' = "abort"
                  /\ UNCHANGED <<parent, open, target, nbuilt>>
             ELSE /\ conss' = conss \o o1.cd \o o2.cd
                  /\ call' = [Called("create") EXCEPT !.arg = <<t1, t2>>]
                  /\ parent' = parent \o <<cur, cur>>
                  /\ SelectNode(open \cup {Len(parent) + 1, Len(parent) + 2})
    /\ UNCHANGED <<timeWindows, modelNeighbors, cols, fix0, fix1, arcconss, cur,
                   graph, lastnodeid, asserts>>

NextCreate ==
    \/ CreateChildren
    \/ Propagate
    \/ pricerRedcostVrp
    \/ pricerFarkasVrp
    \/ FinishNode
    \/ DeactivateNode
    \/ ActivateNode

SpecCreate == Init /\ [][NextCreate]_vars

(* ---------------- the graph builder on any record set ----------------- *)
\* largest number of decision records (arc and customer/day together)
MaxGraphRecs == 2

\* two sibling nodes below the root carry the records
GraphNodes == {RootId + 1, RootId + 2}

ArcRecords == {a \in [tail : Vertices, head : Vertices, type : {PROHIBIT, ENFORCE},
                      node : GraphNodes] : a.tail # a.head}

VARecords == {consdataCreate(c, d, t, n) :
                 c \in Customers, d \in Days, t \in {VA_PROHIBIT, VA_ENFORCE},
                 n \in GraphNodes}

SeqsUpTo(S, n) == UNION {[1 .. k -> S] : k \in 0 .. n}

\* pricerFreeVrp: the private lists are cleared if a node other than the root was
\* priced, then the arrays of pricerdata are freed
pricerFreeVrp(g, lastid) ==
    IF lastid > 1
    THEN LET cl == clearNeighbors(g, lastid)
         IN  [g EXCEPT !.neighbors = cl.neighbors, !.alias = cl.alias,
                       !.freedbase = cl.freedbase]
    ELSE [g EXCEPT !.neighbors = [i \in Vertices |-> [d \in Days |-> << >>]],
                   !.alias = FALSE]

InitGraph ==
    /\ timeWindows \in BaseWindows
    /\ modelNeighbors = BaseNeighbors(timeWindows)
    /\ cols = InitialCols(timeWindows)
    /\ fix0 = {}
    /\ fix1 = {}
    /\ conss \in SeqsUpTo(VARecords, MaxGraphRecs)
    /\ arcconss \in SeqsUpTo(ArcRecords, MaxGraphRecs)
    /\ Len(conss) + Len(arcconss) <= MaxGraphRecs
    /\ parent = <<0, RootId, RootId>>
    /\ open = {}
    /\ cur \in GraphNodes
    /\ target = cur
    /\ pc = "solve"
    /\ graph = ActivateGraph
    /\ lastnodeid = RootId
    /\ call = Called("init")
    /\ asserts = {}
    /\ nbuilt = 0

\* the assertions of setArcMatrix and setTimeTable
BuilderAssertions ==
    <<"arc_alreadyforbidden", "arc_successor", "arc_predecessor",
      "tt_customerrange", "tt_prohibit_available", "tt_enforce_available">>

\* the cache test and the builder call of a pricing callback, without labeling;
\* the call notes the node whose graph the builder found and the assertions that
\* failed in the build
BuildGraph ==
    /\ pc = "solve"
    /\ CacheTest
    /\ call' = [Called("build") EXCEPT !.tested = TRUE, !.built = Rebuild.built,
                   !.arg = <<Rebuild.ret, lastnodeid>>,
                   !.log = SelectSeq(BuilderAssertions,
                                     LAMBDA a : a \in Rebuild.asserts)]
    /\ UNCHANGED <<timeWindows, modelNeighbors, cols, fix0, fix1, conss, arcconss,
                   parent, open, cur, target, pc>>

\* the engine moves the focus to the sibling node
SwitchFocus ==
    /\ pc = "solve"
    /\ \E n \in GraphNodes \ {cur} :
          /\ cur' = n
          /\ target' = n
    /\ call' = Called("switch")
    /\ nbuilt' = 0
    /\ UNCHANGED <<timeWindows, modelNeighbors, cols, fix0, fix1, conss, arcconss,
                   parent, open, pc, graph, lastnodeid, asserts>>

\* the pricer is freed at the end of the solve
FreePricer ==
    /\ pc = "solve"
    /\ graph' = pricerFreeVrp(graph, lastnodeid)
    /\ pc' = "freed"
    /\ call' = Called("free")
    /\ UNCHANGED <<timeWindows, modelNeighbors, cols, fix0, fix1, conss, arcconss,
                   parent, open, cur, target, lastnodeid, asserts, nbuilt>>

NextGraph ==
    \/ BuildGraph
    \/ SwitchFocus
    \/ FreePricer

SpecGraph == InitGraph /\ [][NextGraph]_vars

(* ------------- the steps of a pricing callback, one by one ------------- *)
\* number of worker threads of the parallel labeling algorithm
NumWorkers == 2

Workers == 1 .. NumWorkers

InitPar ==
    /\ timeWindows \in BaseWindows
    /\ modelNeighbors = BaseNeighbors(timeWindows)
    /\ cols = InitialCols(timeWindows)
    /\ fix0 = {}
    /\ fix1 = {}
    /\ conss \in SeqsUpTo(VARecords, 1)
    /\ arcconss = << >>
    /\ parent = <<0, RootId, RootId>>
    /\ open = {}
    /\ cur \in GraphNodes
    /\ target = cur
    /\ pc = "solve"
    /\ graph = ActivateGraph
    /\ lastnodeid = RootId
    /\ call = Called("init")
    /\ asserts = {}
    /\ nbuilt = 0

\* variant: the callback goes on to the labeling calls without the cache test
PricingTest_skipped ==
    /\ pc = "solve"
    /\ \E cb \in {"redcost", "farkas"} :
          call' = [Called("price") EXCEPT !.tested = TRUE, !.arg = <<cb>>]
    /\ pc' = "heur"
    /\ UNCHANGED <<timeWindows, modelNeighbors, cols, fix0, fix1, conss, arcconss,
                   parent, open, cur, target, graph, lastnodeid, asserts, nbuilt>>

\* pricerRedcostVrp / pricerFarkasVrp up to the cache test
PricingTest ==
    /\ pc = "solve"
    /\ \E cb \in {"redcost", "farkas"} :
          call' = [Called("price") EXCEPT !.tested = TRUE, !.arg = <<cb>>]
    /\ pc' = IF lastnodeid # cur THEN "build" ELSE "heur"
    /\ UNCHANGED <<timeWindows, modelNeighbors, cols, fix0, fix1, conss, arcconss,
                   parent, open, cur, target, graph, lastnodeid, asserts, nbuilt>>

\* the set_current_graph call behind the cache test and the update of lastnodeid
PricingBuild ==
    /\ pc = "build"
    /\ LET b == set_current_graph(graph, ActiveArcs, ActiveVAs, lastnodeid)
       IN  /\ graph' = b.graph
           /\ asserts' = asserts \cup b.asserts
    /\ lastnodeid' = cur
    /\ nbuilt' = IF nbuilt < MaxNodes THEN nbuilt + 1 ELSE nbuilt
    /\ call' = [call EXCEPT !.built = TRUE]
    /\ pc' = "heur"
    /\ UNCHANGED <<timeWindows, modelNeighbors, cols, fix0, fix1, conss, arcconss,
                   parent, open, cur, target>>

\* the heuristic labelingAlgorithmIterativ call on the control thread: the
\* callback returns if it added a column
HeuristicLabeling ==
    /\ pc = "heur"
    /\ Labeling(graph)
    /\ pc' = IF cols' # cols THEN "solve" ELSE "exact"
    /\ call' = [call EXCEPT !.labeled = TRUE]
    /\ UNCHANGED <<timeWindows, modelNeighbors, fix0, fix1, conss, arcconss, parent,
                   open, cur, target, graph, lastnodeid, asserts, nbuilt>>

\* exact labeling: labelingAlgorithmParallel starts its workers (reduced cost
\* pricing with PARALLEL_LABELING), or labelingAlgorithmIterativ runs on the
\* control thread
ExactLabeling ==
    /\ pc = "exact"
    /\ \/ /\ call.arg = <<"redcost">>
          /\ call' = [call EXCEPT !.workers = Workers,
                                  !.arg = Append(@, "parallel")]
          /\ pc' = "join"
          /\ cols' = cols
       \/ /\ Labeling(graph)
          /\ call' = call
          /\ pc' = "solve"
    /\ UNCHANGED <<timeWindows, modelNeighbors, fix0, fix1, conss, arcconss, parent,
                   open, cur, target, graph, lastnodeid, asserts, nbuilt>>

\* a worker of labelingAlgorithmParallel ends its search of the graph
WorkerReturn ==
    /\ pc = "join"
    /\ \E w \in call.workers : call' = [call EXCEPT !.workers = @ \ {w}]
    /\ UNCHANGED <<timeWindows, modelNeighbors, cols, fix0, fix1, conss, arcconss,
                   parent, open, cur, target, pc, graph, lastnodeid, asserts, nbuilt>>

\* labelingAlgorithmParallel returns when all its workers have ended; the
\* callback returns after it
ParallelReturn ==
    /\ pc = "join"
    /\ call.workers = {}
    /\ Labeling(graph)
    /\ pc' = "solve"
    /\ call' = call
    /\ UNCHANGED <<timeWindows, modelNeighbors, fix0, fix1, conss, arcconss, parent,
                   open, cur, target, graph, lastnodeid, asserts, nbuilt>>

NextPar ==
    \/ PricingTest
    \/ PricingBuild
    \/ HeuristicLabeling
    \/ ExactLabeling
    \/ WorkerReturn
    \/ ParallelReturn
    \/ SwitchFocus

SpecPar == InitPar /\ [][NextPar]_vars

(* --------------- the selection on any aggregated weights --------------- *)
\* the aggregated weights are multiples of 1/BranchDenom
BranchDenom == 4

RECURSIVE RowSum(_, _)
RowSum(row, d) == IF d > nDays - 1 THEN 0 ELSE row[d] + RowSum(row, d + 1)

\* the aggregation's results on a solution of the master problem: the weights of
\* a customer add up to at most one, numOfDays counts its days of positive
\* weight, and the depot is in no tour
Aggregates ==
    {[VeAssVals |-> w,
      numOfDays |-> [i \in Vertices |-> Cardinality({d \in Days : w[i][d] > 0})],
      denom |-> BranchDenom] :
        w \in {x \in [Vertices -> [Days -> 0 .. BranchDenom]] :
                  /\ \A d \in Days : x[Depot][d] = 0
                  /\ \A c \in Customers : RowSum(x[c], 0) <= BranchDenom}}

InitBranch ==
    /\ timeWindows \in BaseWindows
    /\ modelNeighbors = BaseNeighbors(timeWindows)
    /\ cols = InitialCols(timeWindows)
    /\ fix0 = {}
    /\ fix1 = {}
    /\ conss = << >>
    /\ arcconss = << >>
    /\ parent = <<0>>
    /\ open = {}
    /\ cur = RootId
    /\ target = RootId
    /\ pc = "solve"
    /\ graph = ActivateGraph
    /\ lastnodeid = RootId
    /\ \E agg \in Aggregates : call = [Called("lp") EXCEPT !.arg = <<agg>>]
    /\ asserts = {}
    /\ nbuilt = 0

\* the search for the most fractional pair on the aggregated weights call.arg[1];
\* the selected pair is noted in the call
SelectAny ==
    /\ pc = "solve"
    /\ LET b == SearchLoop(call.arg[1], [bestval |-> call.arg[1].denom, bestnum |-> 0,
                                         best_cust |-> -1, best_day |-> -1], 0, 0)
       IN  /\ call' = [Called("branch") EXCEPT !.arg = call.arg,
                          !.log = <<b.best_cust, b.best_day>>]
           /\ asserts' = IF b.best_cust >= 0 /\ b.best_cust < nC - 1 THEN asserts
                         ELSE asserts \cup {"branch_best_cust"}
    /\ pc' = "done"
    /\ UNCHANGED <<timeWindows, modelNeighbors, cols, fix0, fix1, conss, arcconss,
                   parent, open, cur, target, graph, lastnodeid, nbuilt>>

NextBranch == SelectAny

SpecBranch == InitBranch /\ [][NextBranch]_vars

(* ------------------- the graph of the root, any instance --------------- *)
\* instances in which every vertex, the depot included, has any non-empty list
\* of days
RootWindows == [Vertices -> {SeqOfSet(w) : w \in (SUBSET Days) \ {{}}}]

\* the state after SCIPpricerVrpActivate, before the first pricing round
InitRoot ==
    /\ timeWindows \in RootWindows
    /\ modelNeighbors = BaseNeighbors(timeWindows)
    /\ cols = InitialCols(timeWindows)
    /\ fix0 = {}
    /\ fix1 = {}
    /\ conss = << >>
    /\ arcconss = << >>
    /\ parent = <<0>>
    /\ open = {}
    /\ cur = RootId
    /\ target = RootId
    /\ pc = "solve"
    /\ graph = ActivateGraph
    /\ lastnodeid = RootId
    /\ call = Called("init")
    /\ asserts = {}
    /\ nbuilt = 0

\* the pricing rounds of the root
NextRoot == BuildGraph

SpecRoot == InitRoot /\ [][NextRoot]_vars

(* ============================ properties =============================== *)
\* a column violates a record: PROHIBIT(c,d) by visiting c on day d; ENFORCE(c,d)
\* by visiting c on another day or by running on day d without c
Violates(cd, col) ==
    \/ /\ cd.type = VA_PROHIBIT
       /\ cd.customer \in col.tour /\ col.day = cd.day
    \/ /\ cd.type = VA_ENFORCE
       /\ \/ cd.customer \in col.tour /\ col.day # cd.day
          \/ cd.customer \notin col.tour /\ col.day = cd.day

ActiveSet == Range(ActiveIdx)

RecordOf(node) == conss[CHOOSE i \in 1 .. Len(conss) : conss[i].node = node]

C2_NoDuplicateActiveRecords ==
    \A i \in ActiveSet : \A j \in ActiveSet :
        i # j =>
            /\ <<conss[i].customer, conss[i].day>> # <<conss[j].customer, conss[j].day>>
            /\ ~(conss[i].customer = conss[j].customer
                 /\ conss[i].type = VA_ENFORCE /\ conss[j].type = VA_ENFORCE)

\* C2 witness: two records of the same customer are active together in a node
\* whose LP is being solved
C2_Witness ==
    /\ pc = "solve"
    /\ \E i \in ActiveSet : \E j \in ActiveSet :
          i # j /\ conss[i].customer = conss[j].customer

\* the graph derived from the records active at the current node
RefAvailable(i, d) ==
    /\ InWindow(i, d)
    /\ \A k \in ActiveSet :
          conss[k].customer = i =>
              /\ ~(conss[k].type = VA_PROHIBIT /\ conss[k].day = d)
              /\ (conss[k].type = VA_ENFORCE => conss[k].day = d)

RefForbidden(i, j) ==
    \E k \in 1 .. Len(ActiveArcs) :
        LET a == ActiveArcs[k]
        IN  \/ a.type = PROHIBIT /\ a.tail = i /\ a.head = j
            \/ /\ a.type = ENFORCE /\ a.tail # Depot /\ a.head # Depot
               /\ (i = a.tail /\ j # a.head) \/ (j = a.head /\ i # a.tail)
            \/ a.type = ENFORCE /\ a.head = Depot /\ i = a.tail /\ j # Depot
            \/ a.type = ENFORCE /\ a.tail = Depot /\ a.head # Depot /\ j = a.head /\ i # Depot

RefToDepot(c) ==
    ~\E k \in 1 .. Len(ActiveArcs) :
        LET a == ActiveArcs[k]
        IN  \/ a.type = PROHIBIT /\ a.tail = c /\ a.head = Depot
            \/ a.type = ENFORCE /\ a.tail = c /\ a.head # Depot

RefEnforcedDay(c) ==
    IF Cardinality({d \in Days : RefAvailable(c, d)}) = 1
    THEN CHOOSE d \in Days : RefAvailable(c, d) ELSE -1

GraphMatchesRecords ==
    /\ \A i \in Vertices : \A d \in Days : graph.timetable[i][d] = RefAvailable(i, d)
    /\ \A i \in Vertices : \A j \in Vertices : graph.isForbidden[i][j] = RefForbidden(i, j)
    /\ \A c \in Customers : graph.toDepot[c] = RefToDepot(c)
    /\ \A c \in Customers : graph.eC[c] = RefEnforcedDay(c)
    /\ \A d \in Days :
          graph.nEC[d] = Cardinality({c \in Customers : RefEnforcedDay(c) = d})
    /\ \A i \in Vertices : \A d \in Days :
          graph.neighbors[i][d] =
              IF i # Depot /\ ~RefAvailable(i, d) THEN << >>
              ELSE SelectSeq(modelNeighbors[i][d],
                             LAMBDA nb : RefAvailable(nb, d) /\ ~RefForbidden(i, nb))

C4_BuiltOncePerPricedNodeRootIncluded ==
    (call.op = "price" /\ call.tested) => nbuilt = 1

\* C4 amended: a pricing request rebuilds iff the number of the current node
\* differs from the cached lastnodeid, and then tags the cache with it; so the
\* builder runs exactly once at every node below the root at which a request
\* reaches the cache test, never again on a repeated request there, and never at
\* the root, whose number is the initial lastnodeid.
C4_RebuildIffNodeChanged ==
    /\ []((call.op = "price" /\ call.tested) =>
             /\ lastnodeid = cur
             /\ nbuilt = (IF cur = RootId THEN 0 ELSE 1))
    /\ [][(call'.op = "price" /\ call'.tested) =>
             (call'.built <=> lastnodeid # cur)]_vars

\* C4 witness: a repeated pricing request at a node below the root reuses the cache
C4_Witness ==
    /\ call.op = "price" /\ call.tested /\ ~call.built
    /\ cur # RootId
    /\ nbuilt = 1

\* C5 as stated: a column scanned for an unpropagated record is fixed to zero iff
\* its upper bound is >= 0.5 and it violates the record.
C5_FixedIffFeasibleAndViolating ==
    call.op = "prop" =>
        \A k \in 1 .. Len(call.log) :
            LET e == call.log[k]
            IN  (e.out = "fixed" /\ <<cur, e.v>> \in fix0)
                    <=> (e.ub2 >= 1 /\ Violates(RecordOf(e.node), cols[e.v + 1]))

\* C5 amended: a column scanned for an unpropagated record is fixed to zero iff
\* its upper bound is >= 0.5, its lower bound is < 0.5 and it violates the record
\* (PROHIBIT: visits c on d; ENFORCE: visits c on another day or runs on d without
\* c); a violating column whose lower bound forces it to one is not fixed, the scan
\* ends there with a cutoff; columns with upper bound < 0.5 are neither fixed nor
\* counted, and an ENFORCE record never fixes a column visiting c on d.
C5_FixedIffFeasibleFreeAndViolating ==
    call.op = "prop" =>
        \A k \in 1 .. Len(call.log) :
            LET e == call.log[k]
                r == RecordOf(e.node)
                col == cols[e.v + 1]
            IN  /\ (e.out = "fixed" /\ <<cur, e.v>> \in fix0)
                       <=> (e.ub2 >= 1 /\ e.lb2 < 1 /\ Violates(r, col))
                /\ e.out = "cutoff" <=> (e.ub2 >= 1 /\ e.lb2 > 1 /\ Violates(r, col))
                /\ e.ub2 < 1 => e.out = "none"
                /\ (r.type = VA_ENFORCE /\ r.customer \in col.tour /\ col.day = r.day)
                       => e.out = "none"

\* C5 witness: one call in which an ENFORCE record fixed a column running on its
\* day without its customer, left a column visiting the customer on that day
\* alone, and skipped a column whose upper bound was already zero
C5_Witness ==
    /\ call.op = "prop"
    /\ \E k \in 1 .. Len(call.log) :
          /\ call.log[k].out = "fixed"
          /\ RecordOf(call.log[k].node).type = VA_ENFORCE
          /\ RecordOf(call.log[k].node).customer \notin cols[call.log[k].v + 1].tour
    /\ \E k \in 1 .. Len(call.log) :
          /\ call.log[k].out = "none" /\ call.log[k].ub2 >= 1
          /\ RecordOf(call.log[k].node).type = VA_ENFORCE
          /\ RecordOf(call.log[k].node).customer \in cols[call.log[k].v + 1].tour
    /\ \E k \in 1 .. Len(call.log) : call.log[k].ub2 < 1

\* C6: if, when a record is activated for the first time, a column with upper
\* bound >= 0.5 and lower bound < 0.5 violates it, then the activation leaves the
\* record unpropagated and has it propagated next, and the propagate call that
\* processes it fixes that column to zero and reports REDUCEDDOM unless that call
\* ends with CUTOFF.
C6_FirstActivationPropagates ==
    [][/\ (call'.op = "active") =>
             \A i \in 1 .. Len(conss) :
                 (/\ conss[i].node = cur' /\ conss[i].npropagations = 0
                  /\ \E v \in 0 .. (nvars - 1) :
                        /\ UbLocal2(v)' >= 1 /\ LbLocal2(v)' < 1
                        /\ Violates(conss[i], cols[v + 1]))
                 => (~conss'[i].propagated /\ pc' \in {"focusprop", "reprop"})
       /\ (call'.op = "prop" /\ call'.result # "CUTOFF") =>
             \A i \in ActiveSet : \A v \in 0 .. (nvars - 1) :
                 (/\ ~conss[i].propagated /\ conss[i].npropagations = 0
                  /\ UbLocal2(v) >= 1 /\ LbLocal2(v) < 1
                  /\ Violates(conss[i], cols[v + 1]))
                 => (UbLocal2(v)' < 1 /\ call'.result = "REDUCEDDOM")]_vars

\* C6 witness: the first propagation of an ENFORCE record has fixed a column that
\* visits its customer on another day
C6_Witness ==
    /\ call.op = "prop" /\ call.result = "REDUCEDDOM"
    /\ \E k \in 1 .. Len(call.log) :
          LET e == call.log[k]
              r == RecordOf(e.node)
          IN  /\ e.out = "fixed" /\ r.type = VA_ENFORCE /\ r.npropagations = 1
              /\ r.customer \in cols[e.v + 1].tour /\ cols[e.v + 1].day # r.day
              /\ UbLocal2(e.v) < 1

\* a fixing the call has to attempt meets a column fixed to one: an unpropagated
\* active record and a column at or behind its cursor that violates it
MeetsForcedColumn ==
    \E i \in ActiveSet : \E v \in 0 .. (nvars - 1) :
        /\ ~conss[i].propagated /\ v >= conss[i].npropagatedvars
        /\ UbLocal2(v) >= 1 /\ LbLocal2(v) > 1
        /\ Violates(conss[i], cols[v + 1])

\* C7: a propagate call over the active records reports CUTOFF iff an attempted
\* zero-fixing met a column whose lower bound forces it to one; otherwise
\* REDUCEDDOM iff at least one column was fixed to zero in the call, by any of the
\* records; otherwise DIDNOTFIND.
C7_ResultOfPropagate ==
    [][call'.op = "prop" =>
          call'.result = (IF MeetsForcedColumn THEN "CUTOFF"
                          ELSE IF fix0' # fix0 THEN "REDUCEDDOM" ELSE "DIDNOTFIND")]_vars

\* C7 witness: REDUCEDDOM reported by a call in which the first record fixed a
\* column and the second record, processed after it, fixed none
C7_Witness ==
    /\ call.op = "prop" /\ call.result = "REDUCEDDOM"
    /\ Len(conss) = 2
    /\ conss[1].npropagations = 1 /\ conss[2].npropagations = 1
    /\ \A k \in 1 .. Len(call.log) :
          call.log[k].out = "fixed" => call.log[k].node = conss[1].node
    /\ \E k \in 1 .. Len(call.log) : call.log[k].node = conss[2].node

\* C8: a propagate call on records that are all propagated already fixes no
\* column, changes no field of any record and reports DIDNOTFIND.
C8_PropagateIdempotent ==
    [][(call'.op = "prop" /\ \A i \in ActiveSet : conss[i].propagated) =>
          (conss' = conss /\ fix0' = fix0 /\ call'.result = "DIDNOTFIND")]_vars

\* C8 witness: the second of two successive calls, after a first call that fixed a
\* column, has scanned nothing
C8_Witness ==
    /\ call.op = "prop" /\ call.result = "DIDNOTFIND" /\ call.log = << >>
    /\ \A i \in ActiveSet : conss[i].propagated /\ conss[i].npropagations = 1
    /\ \E v \in 0 .. (nvars - 1) : <<cur, v>> \in fix0

\* C9 as stated: a creation with a verdict that is neither ENFORCE nor PROHIBIT
\* returns an error code and registers no record.
C9_CreateRejectsInvalidVerdict ==
    (call.op = "create"
     /\ \E k \in 1 .. Len(call.arg) : call.arg[k] \notin {VA_ENFORCE, VA_PROHIBIT})
    => /\ call.ret = "INVALIDARGUMENT"
       /\ \A i \in 1 .. Len(conss) : conss[i].type \in {VA_ENFORCE, VA_PROHIBIT}

\* C10 as stated: when a record active at the node carries a verdict other than
\* ENFORCE/PROHIBIT, the build fails with INVALIDDATA, the pricing callback returns
\* that error, the labeling algorithm is not run and lastnodeid is not set to the
\* current node.
C10_InvalidVerdictIsFatalForPricing ==
    (/\ call.op = "price" /\ call.built
     /\ \E i \in ActiveSet : conss[i].type \notin {VA_ENFORCE, VA_PROHIBIT})
    => /\ call.arg = <<"INVALIDDATA">>
       /\ call.ret = "INVALIDDATA"
       /\ ~call.labeled
       /\ lastnodeid # cur

(* --------------------------- graph builder ----------------------------- *)
\* the active customer/day records hold ENFORCE and PROHIBIT of one pair
ConflictingPair ==
    \E i, j \in 1 .. Len(ActiveVAs) :
        /\ ActiveVAs[i].type = VA_ENFORCE
        /\ ActiveVAs[j].type = VA_PROHIBIT
        /\ ActiveVAs[i].customer = ActiveVAs[j].customer
        /\ ActiveVAs[i].day = ActiveVAs[j].day

\* C11 as stated: when ENFORCE(c,d) and PROHIBIT(c,d) are active together, the
\* timetable build does not finish without flagging the conflict, in whatever
\* order the two records are processed
C11_ConflictFlaggedInAnyOrder ==
    (call.op = "build" /\ call.built /\ ConflictingPair)
        => asserts \cap {"tt_prohibit_available", "tt_enforce_available"} # {}

\* the fields of pricerdata the labeling algorithm reads
GraphFields(g) ==
    <<g.isForbidden, g.toDepot, g.timetable, [c \in Customers |-> g.eC[c]], g.nEC,
      g.neighbors>>

\* the graph built for node n from the state left by SCIPpricerVrpActivate
FreshBuild(n) ==
    set_current_graph(ActivateGraph,
                      SelectSeq(arcconss, LAMBDA a : a.node \in PathSet(n)),
                      SelectSeq(conss, LAMBDA cd : cd.node \in PathSet(n)),
                      RootId).graph

\* C12: the graph a build leaves depends only on the active records and the base
\* model: it equals the graph built from the same records on the state left by
\* activation, whatever graph the builder found
C12_BuildIndependentOfPriorGraph ==
    (call.op = "build" /\ call.built)
        => GraphFields(graph) = GraphFields(FreshBuild(cur))

\* a build that found the different graph of the sibling node
C12_Witness ==
    /\ call.op = "build"
    /\ call.built
    /\ call.arg[2] \in GraphNodes
    /\ GraphFields(FreshBuild(call.arg[2])) # GraphFields(graph)
    /\ ActiveArcs # << >>

\* C13: after every build no neighbor list holds the head of a forbidden arc: for
\* all nodes i (customers and depot), all j and all days d, isForbidden[i][j]
\* implies that j is not in neighbors[i][d]
C13_ForbiddenArcsNotInNeighbors ==
    (call.op = "build" /\ call.built)
        => \A i \in Vertices, j \in Vertices, d \in Days :
              graph.isForbidden[i][j] => j \notin Range(graph.neighbors[i][d])

\* a build that removed an available base neighbor of the depot and one of a
\* customer because the arc is forbidden
C13_Witness ==
    /\ call.op = "build"
    /\ call.built
    /\ \E j \in Customers, d \in Days :
          /\ graph.isForbidden[Depot][j]
          /\ graph.timetable[j][d]
          /\ j \in Range(modelNeighbors[Depot][d])
    /\ \E i \in Customers, j \in Customers, d \in Days :
          /\ graph.isForbidden[i][j]
          /\ graph.timetable[i][d]
          /\ graph.timetable[j][d]
          /\ j \in Range(modelNeighbors[i][d])

\* C14: after every build, for every customer c and day d with timetable[c][d]
\* false, neighbors[c][d] is empty and c is in no list neighbors[i][d] of any
\* other node i, the depot included
C14_UnavailableCustomerIsolated ==
    (call.op = "build" /\ call.built)
        => \A c \in Customers, d \in Days :
              ~graph.timetable[c][d]
                  => /\ graph.neighbors[c][d] = << >>
                     /\ \A i \in Vertices \ {c} : c \notin Range(graph.neighbors[i][d])

\* a build after which a customer is unavailable on a day of its base window, on
\* which the base graph gives it a neighbor and lists it for the depot
C14_Witness ==
    /\ call.op = "build"
    /\ call.built
    /\ \E c \in Customers, d \in Days :
          /\ ~graph.timetable[c][d]
          /\ InWindow(c, d)
          /\ modelNeighbors[c][d] # << >>
          /\ c \in Range(modelNeighbors[Depot][d])

\* C15: after every arc-matrix build, for every customer c, isForbidden[c][depot]
\* implies toDepot[c] = FALSE, for every list of active arc records
C15_ForbiddenSinkClearsToDepot ==
    (call.op = "build" /\ call.built)
        => \A c \in Customers : graph.isForbidden[c][nC - 1] => ~graph.toDepot[c]

\* a build over a PROHIBIT record of an arc into the depot and an ENFORCE record
\* of an arc between two customers, both of which forbid an arc into the depot
C15_Witness ==
    /\ call.op = "build"
    /\ call.built
    /\ \E c \in Customers : graph.isForbidden[c][nC - 1]
    /\ \E k \in 1 .. Len(ActiveArcs) :
          /\ ActiveArcs[k].type = ENFORCE
          /\ ActiveArcs[k].tail \in Customers
          /\ ActiveArcs[k].head \in Customers
    /\ \E k \in 1 .. Len(ActiveArcs) :
          /\ ActiveArcs[k].type = PROHIBIT
          /\ ActiveArcs[k].head = nC - 1

\* the base-window days of customer c that are still true in the timetable
DaysLeft(c) == {d \in Days : InWindow(c, d) /\ graph.timetable[c][d]}

\* C16: after setEnforcedCustomers, eC[c] is d if d is the only base-window day of
\* customer c still true in the timetable and -1 otherwise, and nEC[d] is the
\* number of customers with eC[c] = d
C16_EnforcedCustomersFromTimetable ==
    (call.op = "build" /\ call.built)
        => /\ \A c \in Customers :
                 IF Cardinality(DaysLeft(c)) = 1
                 THEN graph.eC[c] \in DaysLeft(c)
                 ELSE graph.eC[c] = -1
           /\ \A d \in Days :
                 graph.nEC[d] = Cardinality({c \in Customers : graph.eC[c] = d})

\* a build after which the records leave one customer a single day of a longer
\* window list, and another customer several days or none
C16_Witness ==
    /\ call.op = "build"
    /\ call.built
    /\ \E c \in Customers :
          /\ Len(timeWindows[c]) > 1
          /\ graph.eC[c] \in Days
          /\ graph.nEC[graph.eC[c]] >= 1
    /\ \E c \in Customers : Cardinality(DaysLeft(c)) # 1

\* the active ENFORCE records of arcs between two customers
EnforcedInnerArcs ==
    {a \in Range(ActiveArcs) :
        a.type = ENFORCE /\ a.tail \in Customers /\ a.head \in Customers}

\* C17: for an active arc record ENFORCE(t,h) with neither endpoint the depot, the
\* build forbids every arc out of t except to h and every arc into h except from
\* t, sets toDepot[t] to false, and records successor[t] = h and predecessor[h] = t
\* (the two arrays as long as no later record trips their assertions)
C17_EnforcedArcForbidsTheOthers ==
    (call.op = "build" /\ call.built)
        => \A a \in EnforcedInnerArcs :
              /\ \A j \in Vertices \ {a.head} : graph.isForbidden[a.tail][j]
              /\ \A j \in Vertices \ {a.tail} : graph.isForbidden[j][a.head]
              /\ ~graph.toDepot[a.tail]
              /\ LET am == setArcMatrix(ActiveArcs)
                 IN  am.asserts \cap {"arc_successor", "arc_predecessor"} = {}
                        => /\ am.successor[a.tail] = a.head
                           /\ am.predecessor[a.head] = a.tail

\* a build over an ENFORCE record between two customers and a second arc record,
\* none of which trips an assertion
C17_Witness ==
    /\ call.op = "build"
    /\ call.built
    /\ EnforcedInnerArcs # {}
    /\ Len(ActiveArcs) > 1
    /\ setArcMatrix(ActiveArcs).asserts = {}

\* C18 as stated: no operation of the core writes to or frees any part of the base
\* model graph: the base neighbor lists and time windows stay as loaded and no
\* list node of the base graph is ever freed
C18_BaseGraphUntouched ==
    /\ modelNeighbors = BaseNeighbors(timeWindows)
    /\ timeWindows \in BaseWindows
    /\ ~graph.freedbase

(* -------------------------- pricing callback --------------------------- *)
\* C19: the graph is never rebuilt while a pricing worker reads it: in each
\* pricing callback the rebuild has finished before any labeling call starts, and
\* no rebuild starts before all labeling workers of the previous call returned
C19_NoRebuildWhileLabeling ==
    /\ pc = "build" => call.workers = {} /\ ~call.labeled
    /\ pc \in {"heur", "exact", "join"} => lastnodeid = cur
    /\ call.workers # {} => pc = "join"

\* workers of the parallel labeling run in a callback that rebuilt the graph
C19_Witness ==
    /\ pc = "join"
    /\ call.built
    /\ call.workers = Workers
    /\ lastnodeid # RootId
    /\ nbuilt > 0

(* --------------------------- branching rule ---------------------------- *)
\* the pairs whose aggregated weight is strictly between 0 and 1
FractionalPairs(agg) ==
    {p \in Vertices \X Days :
        agg.VeAssVals[p[1]][p[2]] > 0 /\ agg.VeAssVals[p[1]][p[2]] < agg.denom}

\* twice the distance of the weight of pair p from 0.5, in units of 1/denom
Distance(agg, p) == Abs(agg.denom - 2 * agg.VeAssVals[p[1]][p[2]])

\* C20: the branching rule selects a (customer, day) pair of non-integral
\* aggregated weight that minimises |0.5 - weight|; among the pairs of that
\* distance the customer with the larger count of fractionally used days wins;
\* among full ties the first pair in (customer, day) scan order is kept
C20_MostFractionalPairSelected ==
    (call.op = "branch" /\ FractionalPairs(call.arg[1]) # {})
        => LET agg == call.arg[1]
               sel == <<call.log[1], call.log[2]>>
           IN  /\ sel \in FractionalPairs(agg)
               /\ \A p \in FractionalPairs(agg) :
                     \/ Distance(agg, sel) < Distance(agg, p)
                     \/ /\ Distance(agg, sel) = Distance(agg, p)
                        /\ agg.numOfDays[sel[1]] > agg.numOfDays[p[1]]
                     \/ /\ Distance(agg, sel) = Distance(agg, p)
                        /\ agg.numOfDays[sel[1]] = agg.numOfDays[p[1]]
                        /\ sel[1] * nDays + sel[2] <= p[1] * nDays + p[2]

\* a selection among pairs of different distances in which the pair of a later
\* customer won against an earlier pair of the same distance by its count of days
C20_Witness ==
    /\ call.op = "branch"
    /\ LET agg == call.arg[1]
           sel == <<call.log[1], call.log[2]>>
       IN  /\ sel \in FractionalPairs(agg)
           /\ \E p \in FractionalPairs(agg) : Distance(agg, p) > Distance(agg, sel)
           /\ \E p \in FractionalPairs(agg) :
                 /\ Distance(agg, p) = Distance(agg, sel)
                 /\ agg.numOfDays[p[1]] < agg.numOfDays[sel[1]]
                 /\ p[1] < sel[1]

\* the pairs whose aggregated weight is exactly 0.5
HalfPairs(agg) ==
    {p \in Vertices \X Days : 2 * agg.VeAssVals[p[1]][p[2]] = agg.denom}

\* C21 as stated: a pair whose aggregated weight is exactly 0.5 is treated as
\* integral and skipped, so the selected pair never has weight 0.5
C21_HalfWeightSkipped ==
    (call.op = "branch" /\ call.log[1] >= 0)
        => <<call.log[1], call.log[2]>> \notin HalfPairs(call.arg[1])

\* C21 amended: the pairs skipped as integral are those of weight exactly 0 or 1;
\* a pair of weight exactly 0.5 is at distance 0, and whenever one exists the
\* selected pair has weight exactly 0.5
C21_HalfWeightSelected ==
    call.op = "branch"
        => LET agg == call.arg[1]
               sel == <<call.log[1], call.log[2]>>
           IN  /\ HalfPairs(agg) # {} => sel \in HalfPairs(agg)
               /\ call.log[1] >= 0
                     => /\ agg.VeAssVals[sel[1]][sel[2]] # 0
                        /\ agg.VeAssVals[sel[1]][sel[2]] # agg.denom

\* a selection of a pair of weight 0.5 that comes after a fractional pair of
\* another weight in scan order, with a pair of weight 1 in the table
C21_Witness ==
    /\ call.op = "branch"
    /\ LET agg == call.arg[1]
           sel == <<call.log[1], call.log[2]>>
       IN  /\ sel \in HalfPairs(agg)
           /\ \E p \in FractionalPairs(agg) \ HalfPairs(agg) :
                 p[1] * nDays + p[2] < sel[1] * nDays + sel[2]
           /\ \E p \in Vertices \X Days : agg.VeAssVals[p[1]][p[2]] = agg.denom

\* C22: each successful execution of the branching rule creates exactly two child
\* nodes of the focus node and exactly two decision records for the same selected
\* (customer, day) pair, a PROHIBIT record owned by one child and an ENFORCE
\* record owned by the other, and leaves the older records as they are
C22_BranchingCreatesTwoChildren ==
    [][parent' # parent
         => LET n == Len(parent)
                m == Len(conss)
            IN  /\ Len(parent') = n + 2
                /\ \A k \in 1 .. n : parent'[k] = parent[k]
                /\ parent'[n + 1] = cur /\ parent'[n + 2] = cur
                /\ Len(conss') = m + 2
                /\ \A k \in 1 .. m : conss'[k] = conss[k]
                /\ {conss'[m + 1].type, conss'[m + 2].type} = {VA_PROHIBIT, VA_ENFORCE}
                /\ {conss'[m + 1].node, conss'[m + 2].node} = {n + 1, n + 2}
                /\ conss'[m + 1].customer = conss'[m + 2].customer
                /\ conss'[m + 1].day = conss'[m + 2].day
                /\ conss'[m + 1].customer \in Customers
                /\ conss'[m + 1].day \in Days]_vars

\* the branching rule has run at a child of the root: two levels of children and
\* four records exist
C22_Witness ==
    /\ call.op = "branch"
    /\ Len(conss) = 4
    /\ \E n \in 1 .. Len(parent) : parent[n] # 0 /\ parent[n] # RootId

(* --------------------- activation and deactivation --------------------- *)
\* the records owned by node n
OwnedBy(n) == {i \in 1 .. Len(conss) : conss[i].node = n}

\* C23: activate(record): if npropagatedvars differs from the current column
\* count, the record is marked unpropagated and repropagation of its node is
\* requested; if they are equal, the propagated flag is left unchanged and no
\* repropagation is requested; the cursor is never changed by activate
C23_ActivateMarksIffCursorBehind ==
    [][(call'.op = "active" /\ cur' # cur)
         => /\ \A i \in OwnedBy(cur') :
                  /\ conss'[i].npropagatedvars = conss[i].npropagatedvars
                  /\ conss[i].npropagatedvars # nvars => ~conss'[i].propagated
                  /\ conss[i].npropagatedvars = nvars
                        => conss'[i].propagated = conss[i].propagated
                  /\ [conss'[i] EXCEPT !.propagated = TRUE]
                        = [conss[i] EXCEPT !.propagated = TRUE]
            /\ (\E i \in OwnedBy(cur') : conss[i].npropagatedvars # nvars)
                  => pc' \in {"reprop", "focusprop"}
            /\ (cur' # target /\ \A i \in OwnedBy(cur') : conss[i].npropagatedvars = nvars)
                  => pc' = "switch"]_vars

\* a node on the way to the focus node was activated again after a column was
\* added elsewhere: its propagated record is marked and repropagation is pending
C23_Witness ==
    /\ call.op = "active"
    /\ pc = "reprop"
    /\ \E i \in OwnedBy(cur) :
          /\ ~conss[i].propagated
          /\ conss[i].npropagations > 0
          /\ conss[i].npropagatedvars > 0
          /\ conss[i].npropagatedvars < nvars

\* C24: deactivate(record) sets the record's npropagatedvars to the current
\* column count and leaves every other field of the record (customer, day,
\* verdict, owning node, propagated flag, run count), every other record, the
\* columns and all column bounds unchanged
C24_DeactivateOnlyMovesCursor ==
    [][call'.op = "deactive"
         => /\ \A i \in 1 .. Len(conss) :
                  conss'[i] = IF i \in OwnedBy(cur)
                              THEN [conss[i] EXCEPT !.npropagatedvars = nvars]
                              ELSE conss[i]
            /\ Len(conss') = Len(conss)
            /\ cols' = cols
            /\ fix0' = fix0
            /\ fix1' = fix1]_vars

\* a deactivation that moved the cursor of a record that was not propagated: the
\* flag is still false and the cursor is at the column count
C24_Witness ==
    /\ call.op = "deactive"
    /\ \E i \in 1 .. Len(conss) :
          /\ parent[conss[i].node] = cur
          /\ ~conss[i].propagated
          /\ conss[i].npropagations > 0
          /\ conss[i].npropagatedvars = nvars

\* the columns a propagation call with log lg scanned for the record of node n
Scanned(lg, n) == {lg[k].v : k \in {x \in 1 .. Len(lg) : lg[x].node = n}}

\* C25 as stated: after a record has been deactivated, columns created after that
\* deactivation do not cause it to be propagated again: a later activate does not
\* mark it unpropagated and propagate never scans such columns for it (a record
\* with npropagations > 0 that is activated has been deactivated before, and its
\* cursor is the column count of that deactivation)
C25_LaterColumnsNeverRepropagated ==
    [][/\ (call'.op = "active" /\ cur' # cur)
            => \A i \in OwnedBy(cur') :
                  (conss[i].npropagations > 0 /\ conss[i].propagated)
                      => conss'[i].propagated
       /\ call'.op = "prop"
            => \A i \in 1 .. Len(conss) :
                  (IsActive(conss[i]) /\ conss[i].npropagations > 0)
                      => \A v \in Scanned(call'.log, conss[i].node) :
                            v < conss[i].npropagatedvars]_vars

\* C25 amended: the columns that existed when the record was deactivated are not
\* scanned again, and the columns created after the deactivation are: a later
\* activate marks the record unpropagated exactly when such columns exist, and the
\* next propagate scans the columns from the cursor on, all of them unless a
\* cutoff ends the scan
C25_LaterColumnsRepropagated ==
    [][/\ (call'.op = "active" /\ cur' # cur)
            => \A i \in OwnedBy(cur') :
                  (conss[i].npropagations > 0 /\ conss[i].propagated)
                      => (conss'[i].propagated <=> conss[i].npropagatedvars = nvars)
       /\ call'.op = "prop"
            => \A i \in 1 .. Len(conss) :
                  (IsActive(conss[i]) /\ conss[i].npropagations > 0)
                      => /\ Scanned(call'.log, conss[i].node)
                               \subseteq conss[i].npropagatedvars .. (nvars - 1)
                         /\ (~conss[i].propagated /\ call'.result # "CUTOFF")
                               => Scanned(call'.log, conss[i].node)
                                     = conss[i].npropagatedvars .. (nvars - 1)]_vars

\* a propagation of a record activated again that scanned a column priced after
\* its deactivation and none of the older columns
C25_Witness ==
    /\ call.op = "prop"
    /\ \E i \in 1 .. Len(conss) :
          /\ IsActive(conss[i])
          /\ conss[i].npropagations > 1
          /\ conss[i].propagated
          /\ Scanned(call.log, conss[i].node) # {}
          /\ \A v \in Scanned(call.log, conss[i].node) :
                v >= Len(InitialCols(timeWindows))

\* nodes of the records whose scan ended in a cutoff, according to a call's log
CutoffNodes(lg) == {lg[k].node : k \in {x \in 1 .. Len(lg) : lg[x].out = "cutoff"}}

\* the active records the call got to and left without a cutoff
ProcessedWithoutCutoff(lg) ==
    {i \in ActiveSet : \A j \in ActiveSet : j <= i => conss[j].node \notin CutoffNodes(lg)}

\* C26: after a propagate call, every record that was unpropagated and was
\* processed without a cutoff is propagated, its cursor equals the column count
\* and its run counter has grown by exactly one; every record that was already
\* propagated is untouched.
C26_ProcessedRecordIsPropagated ==
    [][call'.op = "prop" =>
          \A i \in ActiveSet :
              /\ conss[i].propagated => conss'[i] = conss[i]
              /\ (~conss[i].propagated /\ i \in ProcessedWithoutCutoff(call'.log))
                    => conss'[i] = [conss[i] EXCEPT !.propagated = TRUE,
                                                    !.npropagatedvars = nvars,
                                                    !.npropagations = @ + 1]]_vars

\* C26 witness: a call over two records, the first propagated before and left as
\* it was, the second processed for the first time from a cursor behind the
\* column count
C26_Witness ==
    /\ call.op = "prop" /\ call.result # "CUTOFF"
    /\ Len(conss) = 2
    /\ conss[1].propagated /\ conss[1].npropagations = 0
    /\ conss[1].npropagatedvars < nvars
    /\ conss[2].propagated /\ conss[2].npropagations = 1
    /\ conss[2].npropagatedvars = nvars
    /\ Scanned(call.log, conss[2].node) = 0 .. (nvars - 1)

\* the first column from the record's cursor on that the record must fix to zero
\* while its lower bound forces it to one
Contradicting(cd) ==
    {v \in cd.npropagatedvars .. (nvars - 1) :
        UbLocal2(v) >= 1 /\ LbLocal2(v) > 1 /\ Violates(cd, cols[v + 1])}

\* C27: when a propagate call reports CUTOFF, the scan stopped at the first
\* contradicting column of the record it was at, the zero-fixings made in the
\* call stay in place, that record stays unpropagated with its cursor unchanged
\* (only its run counter grew by one), and no later record was processed.
C27_CutoffLeavesRecordUnpropagated ==
    [][(call'.op = "prop" /\ call'.result = "CUTOFF") =>
          LET lg == call'.log
              last == lg[Len(lg)]
          IN  /\ Len(lg) > 0 /\ last.out = "cutoff"
              /\ \A k \in 1 .. (Len(lg) - 1) : lg[k].out # "cutoff"
              /\ \A k \in 1 .. Len(lg) : lg[k].out = "fixed" => <<cur, lg[k].v>> \in fix0'
              /\ \E i \in ActiveSet :
                    /\ conss[i].node = last.node
                    /\ ~conss[i].propagated
                    /\ Contradicting(conss[i]) # {}
                    /\ \A v \in Contradicting(conss[i]) : last.v <= v
                    /\ last.v \in Contradicting(conss[i])
                    /\ Scanned(lg, last.node) = conss[i].npropagatedvars .. last.v
                    /\ conss'[i] = [conss[i] EXCEPT !.npropagations = @ + 1]
                    /\ \A j \in ActiveSet :
                          j > i => /\ conss'[j] = conss[j]
                                   /\ Scanned(lg, conss[j].node) = {}]_vars

\* C27 witness: a cutoff at the second column of the first of two records, after
\* that record fixed the first column; the second record is unpropagated still
C27_Witness ==
    /\ call.op = "prop" /\ call.result = "CUTOFF"
    /\ Len(conss) = 2 /\ Len(call.log) = 2
    /\ call.log[1].out = "fixed" /\ call.log[1].node = conss[1].node
    /\ call.log[2].out = "cutoff" /\ call.log[2].node = conss[1].node
    /\ <<cur, call.log[1].v>> \in fix0
    /\ ~conss[1].propagated /\ conss[1].npropagations = 1
    /\ ~conss[2].propagated /\ conss[2].npropagations = 0

\* C28 as stated: the hit value computed for a column against (customer, day) is
\* 2 if the column visits the customer and runs on that day, 1 if it visits the
\* customer on another day, and 0 for every column that does not visit the
\* customer.
C28_HitZeroWithoutCustomer ==
    \A k \in 1 .. Len(call.log) :
        LET e == call.log[k]
            cd == RecordOf(e.node)
            var == cols[e.v + 1]
        IN  e.arcStatus # -1 =>
                e.arcStatus = (IF cd.customer \in var.tour
                               THEN (IF var.day = cd.day THEN 2 ELSE 1)
                               ELSE 0)

\* C28 amended: the hit value is 2 if the column visits the customer and runs on
\* that day, 1 if exactly one of the two holds (it visits the customer on another
\* day, or runs on that day without the customer), and 0 if neither holds.
C28_HitCountsCustomerAndDay ==
    \A k \in 1 .. Len(call.log) :
        LET e == call.log[k]
            cd == RecordOf(e.node)
            var == cols[e.v + 1]
            a == IF cd.customer \in var.tour THEN 1 ELSE 0
            b == IF var.day = cd.day THEN 1 ELSE 0
        IN  e.arcStatus # -1 => e.arcStatus = a + b

\* C28 witness: a call that computed the hit value 1 for a column that runs on the
\* record's day without its customer
C28_Witness ==
    /\ call.op = "prop"
    /\ \E k \in 1 .. Len(call.log) :
          LET e == call.log[k]
              cd == RecordOf(e.node)
              var == cols[e.v + 1]
          IN  e.arcStatus = 1 /\ cd.customer \notin var.tour /\ var.day = cd.day

\* the invariants of the active customer/day records: no two records of one
\* (customer, day) pair, no two ENFORCE records of one customer, and every record
\* on a day of its customer's base window
RecordInvariants ==
    /\ \A c \in 1 .. Len(ActiveIdx) : NoEqualConsdata(conss, ActiveIdx, c)
    /\ \A k \in 1 .. Len(ActiveVAs) : InWindow(ActiveVAs[k].customer, ActiveVAs[k].day)

Reverse(s) == [k \in 1 .. Len(s) |-> s[Len(s) + 1 - k]]

ForbiddenByOthers(i, j) ==
    \E k \in 1 .. Len(ActiveArcs) :
        LET a == ActiveArcs[k]
        IN  \/ a.type = PROHIBIT /\ a.tail = i /\ a.head = j
            \/ /\ a.type = ENFORCE /\ a.tail \in Customers /\ a.head \in Customers
               /\ \/ a.tail = i /\ a.head # j
                  \/ a.head = j /\ a.tail # i

\* C30: for an active arc record ENFORCE(t, depot) the build forbids every arc
\* from t to a customer, and the arc t -> depot is forbidden and toDepot[t] false
\* only where another active record forbids that arc; for an active
\* ENFORCE(depot, h) the build forbids every arc into h from a customer, and the
\* arc depot -> h is forbidden only where another active record forbids it.
C30_EnforcedDepotArcs ==
    (call.op = "build" /\ call.built)
        => \A k \in 1 .. Len(ActiveArcs) :
              LET a == ActiveArcs[k]
              IN  /\ (a.type = ENFORCE /\ a.head = Depot)
                        => /\ \A j \in Customers : graph.isForbidden[a.tail][j]
                           /\ graph.isForbidden[a.tail][Depot]
                                 <=> ForbiddenByOthers(a.tail, Depot)
                           /\ graph.toDepot[a.tail] <=> ~ForbiddenByOthers(a.tail, Depot)
                  /\ (a.type = ENFORCE /\ a.tail = Depot)
                        => /\ \A i \in Customers : graph.isForbidden[i][a.head]
                           /\ graph.isForbidden[Depot][a.head]
                                 <=> ForbiddenByOthers(Depot, a.head)

\* C30 witness: a build over ENFORCE(depot, h) and ENFORCE(t, depot), after which
\* both enforced arcs are allowed and t may still return to the depot
C30_Witness ==
    /\ call.op = "build" /\ call.built
    /\ Len(ActiveArcs) = 2
    /\ ActiveArcs[1].type = ENFORCE /\ ActiveArcs[1].tail = Depot
    /\ ActiveArcs[2].type = ENFORCE /\ ActiveArcs[2].head = Depot
    /\ ~graph.isForbidden[Depot][ActiveArcs[1].head]
    /\ ~graph.isForbidden[ActiveArcs[2].tail][Depot]
    /\ graph.toDepot[ActiveArcs[2].tail]
    /\ \A j \in Customers : graph.isForbidden[ActiveArcs[2].tail][j]
    /\ \A i \in Customers : graph.isForbidden[i][ActiveArcs[1].head]

\* no two active PROHIBIT records of one arc
NoDuplicateProhibit ==
    \A k, l \in 1 .. Len(ActiveArcs) :
        (k # l /\ ActiveArcs[k].type = PROHIBIT /\ ActiveArcs[l].type = PROHIBIT)
            => <<ActiveArcs[k].tail, ActiveArcs[k].head>>
                  # <<ActiveArcs[l].tail, ActiveArcs[l].head>>

\* at most one enforced outgoing and one enforced incoming arc per customer
OneEnforcedArcEach ==
    \A k, l \in 1 .. Len(ActiveArcs) :
        (k # l /\ ActiveArcs[k].type = ENFORCE /\ ActiveArcs[l].type = ENFORCE)
            => /\ ActiveArcs[k].tail = ActiveArcs[l].tail => ActiveArcs[k].tail = Depot
               /\ ActiveArcs[k].head = ActiveArcs[l].head => ActiveArcs[k].head = Depot

\* record a, processed earlier, has forbidden the arc (i, j)
ForbidsArc(a, i, j) ==
    IF a.type = PROHIBIT THEN a.tail = i /\ a.head = j
    ELSE IF a.head # Depot /\ a.tail # Depot
    THEN (i = a.tail /\ j # a.head) \/ (j = a.head /\ i # a.tail)
    ELSE IF a.head = Depot THEN i = a.tail /\ j \in Customers
    ELSE j = a.head /\ i \in Customers

\* C31 as stated: for active arc records without duplicate PROHIBITs and with at
\* most one enforced outgoing and one enforced incoming arc per customer, the
\* assertion 'arc not already forbidden' holds for every PROHIBIT record, in
\* every processing order.
C31_AssertionFailsOnDuplicatesOnly ==
    (call.op = "build" /\ call.built /\ NoDuplicateProhibit /\ OneEnforcedArcEach)
        => "arc_alreadyforbidden" \notin Range(call.log)

\* C31 amended: the assertion of setArcMatrix fails exactly when a record
\* processed before a PROHIBIT record has forbidden its arc already: an earlier
\* PROHIBIT of the same arc, or an earlier ENFORCE record that forbids the arc.
C31_AssertionFailsIffForbiddenBefore ==
    (call.op = "build" /\ call.built)
        => ("arc_alreadyforbidden" \in Range(call.log)
              <=> \E k, l \in 1 .. Len(ActiveArcs) :
                     /\ k < l
                     /\ ActiveArcs[l].type = PROHIBIT
                     /\ ForbidsArc(ActiveArcs[k], ActiveArcs[l].tail, ActiveArcs[l].head))

\* C31 witness: a build over an ENFORCE record and, after it, a PROHIBIT record of
\* an arc that the ENFORCE record forbids; the assertion has failed
C31_Witness ==
    /\ call.op = "build" /\ call.built
    /\ NoDuplicateProhibit /\ OneEnforcedArcEach
    /\ Len(ActiveArcs) = 2
    /\ ActiveArcs[1].type = ENFORCE /\ ActiveArcs[2].type = PROHIBIT
    /\ "arc_alreadyforbidden" \in Range(call.log)

\* the active ENFORCE records of arcs that leave a customer
EnforcedSuccessors == {a \in Range(ActiveArcs) : a.type = ENFORCE /\ a.tail \in Customers}

\* C32 as stated: after a graph build, for every customer c with an enforced
\* successor s and every day d, neighbors[c][d] is exactly the list [s]; here on
\* records none of which trips an assertion of the builder.
C32_SuccessorIsOnlyNeighbor ==
    (call.op = "build" /\ call.built /\ call.log = << >>)
        => \A a \in EnforcedSuccessors : \A d \in Days :
              graph.neighbors[a.tail][d] = <<a.head>>

\* C32 amended: after a graph build, for every customer c with an enforced
\* successor s and every day d, neighbors[c][d] is the list [s] if s is a
\* customer of the base list of (c,d), c and s are both available on d in the
\* timetable and the arc (c,s) is not forbidden, and is empty otherwise.
C32_SuccessorOrNothing ==
    (call.op = "build" /\ call.built)
        => \A a \in EnforcedSuccessors : \A d \in Days :
              graph.neighbors[a.tail][d] =
                 (IF /\ a.head \in Range(modelNeighbors[a.tail][d])
                     /\ graph.timetable[a.tail][d] /\ graph.timetable[a.head][d]
                     /\ ~graph.isForbidden[a.tail][a.head]
                  THEN <<a.head>> ELSE << >>)

\* C32 witness: a build over an ENFORCE record between two customers after which
\* the tail lists the head on one day and nothing on another day of its base
\* window, on which the head is not available
C32_Witness ==
    /\ call.op = "build" /\ call.built /\ call.log = << >>
    /\ \E a \in EnforcedSuccessors : \E d1, d2 \in Days :
          /\ a.head \in Customers
          /\ graph.neighbors[a.tail][d1] = <<a.head>>
          /\ InWindow(a.tail, d2) /\ graph.timetable[a.tail][d2]
          /\ graph.neighbors[a.tail][d2] = << >>

\* the base list of (c, d) without the neighbors that are unavailable on d, that
\* are reached by a forbidden arc, or that are the head of an enforced arc from
\* another tail
FilteredBaseList(c, d) ==
    SelectSeq(modelNeighbors[c][d],
              LAMBDA n : /\ graph.timetable[n][d]
                         /\ ~graph.isForbidden[c][n]
                         /\ ~\E a \in Range(ActiveArcs) :
                                a.type = ENFORCE /\ a.head = n /\ a.tail # c)

\* C33 as stated: after a graph build, for every customer c without an enforced
\* successor and every day d, neighbors[c][d] is the base list of (c,d), in its
\* order, restricted to the neighbors that are available on d, whose arc from c
\* is not forbidden and that are not the head of an enforced arc from another
\* tail; here on records none of which trips an assertion of the builder.
C33_NeighborsAreFilteredBaseList ==
    (call.op = "build" /\ call.built /\ call.log = << >>)
        => \A c \in Customers : \A d \in Days :
              (\A a \in EnforcedSuccessors : a.tail # c)
                  => graph.neighbors[c][d] = FilteredBaseList(c, d)

\* C33 amended: the list is that restriction of the base list on the days on
\* which c itself is available in the timetable, and empty on the other days.
C33_NeighborsOfAvailableCustomer ==
    (call.op = "build" /\ call.built)
        => \A c \in Customers : \A d \in Days :
              (\A a \in EnforcedSuccessors : a.tail # c)
                  => graph.neighbors[c][d] =
                        (IF graph.timetable[c][d] THEN FilteredBaseList(c, d) ELSE << >>)

\* C33 witness: a build after which a customer without enforced successor has an
\* empty list on a day that a record took from it, although a base neighbor
\* passes the filter, and a non-empty filtered list on another day
C33_Witness ==
    /\ call.op = "build" /\ call.built /\ call.log = << >>
    /\ \E c \in Customers : \E d1, d2 \in Days :
          /\ \A a \in EnforcedSuccessors : a.tail # c
          /\ ~graph.timetable[c][d1]
          /\ FilteredBaseList(c, d1) # << >>
          /\ graph.neighbors[c][d1] = << >>
          /\ graph.timetable[c][d2]
          /\ graph.neighbors[c][d2] # << >>

\* C34 as stated: for every (customer, day) pair the aggregated weight used by the
\* branching rule is the sum of the LP values of all columns that visit the
\* customer and run on the day, those with LP value one included.
C34_WeightSumsAllColumns ==
    call.op = "branch"
        => \A c \in Customers : \A d \in Days :
              call.arg[2][c][d] = ColSum(call.arg[1], c, d, 1, FALSE)

\* C34 amended: the aggregated weight is the sum of the LP values of the columns
\* with a fractional LP value (strictly between 0 and 1) that visit the customer
\* and run on the day; a column with LP value one adds nothing.
C34_WeightSumsFractionalColumns ==
    call.op = "branch"
        => \A c \in Customers : \A d \in Days :
              call.arg[2][c][d] = ColSum(call.arg[1], c, d, 1, TRUE)

\* C34 witness: a branching on a solution with a column of value one, whose pair
\* has weight zero, and another pair of fractional weight
C34_Witness ==
    /\ call.op = "branch"
    /\ \E i \in 1 .. Len(cols) : \E c \in cols[i].tour :
          call.arg[1][i] = LPDenom /\ call.arg[2][c][cols[i].day] = 0
    /\ \E c \in Customers : \E d \in Days :
          /\ IsFractional(call.arg[2][c][d])
          /\ call.arg[2][c][d] = ColSum(call.arg[1], c, d, 1, TRUE)

\* C35: in every reachable state the cursor of every record lies between 0 and
\* the column count, so that the assertion at activation never fails, and no
\* step of activate, deactivate or propagate decreases the cursor of a record.
C35_CursorBoundedAndMonotone ==
    /\ [](/\ \A i \in 1 .. Len(conss) :
               0 <= conss[i].npropagatedvars /\ conss[i].npropagatedvars <= nvars
          /\ "active_npropagated" \notin asserts)
    /\ [][/\ Len(conss') >= Len(conss)
          /\ nvars' >= nvars
          /\ \A i \in 1 .. Len(conss) :
                conss'[i].npropagatedvars >= conss[i].npropagatedvars]_vars

\* C35 witness: a record whose cursor was moved by a deactivation past the columns
\* it had propagated, activated again after a further column was priced, with the
\* cursor behind the column count
C35_Witness ==
    /\ call.op = "active"
    /\ \E i \in OwnedBy(cur) :
          /\ conss[i].npropagations > 0
          /\ ~conss[i].propagated
          /\ conss[i].npropagatedvars > Len(InitialCols(timeWindows))
          /\ conss[i].npropagatedvars < nvars

\* the nodes created by a branching at node n
ChildrenOf(n) == {m \in 1 .. Len(parent) : parent[m] = n}

\* C36: under the engine's protocol the assertion of deactivate never fails, and
\* whenever a record is deactivated it is marked propagated or its node has no
\* children: a record marked unpropagated by activate, or left unpropagated by a
\* CUTOFF, is never deactivated at a node that has branched.
C36_DeactivatedPropagatedOrChildless ==
    /\ []("deactive_propagated" \notin asserts)
    /\ [][call'.op = "deactive"
             => \A i \in OwnedBy(cur) :
                   conss[i].propagated \/ ChildrenOf(cur) = {}]_vars

\* C36 witness: the deactivation of a node that has branched, whose record was
\* propagated before the branching
C36_Witness ==
    /\ call.op = "deactive"
    /\ \E n \in ChildrenOf(cur) : \E i \in OwnedBy(n) :
          /\ ChildrenOf(n) # {}
          /\ conss[i].propagated
          /\ conss[i].npropagations > 0
          /\ conss[i].npropagatedvars = nvars

\* C36 witness of the other case: the deactivation of a record that a CUTOFF left
\* unpropagated, at a node without children
C36_WitnessCutoff ==
    /\ call.op = "deactive"
    /\ \E n \in ChildrenOf(cur) : \E i \in OwnedBy(n) :
          /\ ChildrenOf(n) = {}
          /\ ~conss[i].propagated
          /\ conss[i].npropagations > 0

\* the pair (c, d) is available under the active records of the current node: d
\* is in the base window of c, no PROHIBIT(c,d) is active and no ENFORCE of c on
\* another day is active
PairAvailable(c, d) ==
    /\ InWindow(c, d)
    /\ \A k \in 1 .. Len(ActiveVAs) :
          ActiveVAs[k].customer = c
             => /\ ~(ActiveVAs[k].type = VA_PROHIBIT /\ ActiveVAs[k].day = d)
                /\ ~(ActiveVAs[k].type = VA_ENFORCE /\ ActiveVAs[k].day # d)

\* C37: in every state reached through propagation, pricing and branching, the
\* pair selected by the branching rule is available in the timetable of the
\* current node, and no later build of setTimeTable over the records of a node,
\* in root-to-node order, fails the 'day still available' assertion of a PROHIBIT
\* or an ENFORCE record.
C37_SelectedPairAvailable ==
    /\ [][parent' # parent
             => \A i \in (Len(conss) + 1) .. Len(conss') :
                   /\ PairAvailable(conss'[i].customer, conss'[i].day)
                   /\ setTimeTable(ActiveVAs).timetable[conss'[i].customer][conss'[i].day]]_vars
    /\ [](asserts \cap {"tt_prohibit_available", "tt_enforce_available"} = {})

\* C37 witness: a build at a node two levels below the root whose two active
\* records are of one customer, the second selected under the first
C37_Witness ==
    /\ call.op = "price" /\ call.built
    /\ Len(ActiveVAs) = 2
    /\ ActiveVAs[1].customer = ActiveVAs[2].customer
    /\ ActiveVAs[1].day # ActiveVAs[2].day
    /\ graph.timetable = setTimeTable(ActiveVAs).timetable
    /\ asserts \cap {"tt_prohibit_available", "tt_enforce_available"} = {}

\* the graph set_current_graph derives from no active record
EmptyBuild == set_current_graph(ActivateGraph, << >>, << >>, RootId).graph

\* C38 as stated: at the root the builder is never run, and the graph that
\* pricing uses there, as SCIPpricerVrpActivate left it, equals the graph that
\* set_current_graph derives from an empty set of active records.
C38_RootGraphIsEmptyBuild ==
    (call.op = "build" /\ cur = RootId)
        => /\ ~call.built
           /\ GraphFields(graph) = GraphFields(EmptyBuild)

\* a column among the first n that is not fixed to zero and violates the record
ViolationBelow(cd, n) ==
    \E v \in 0 .. (n - 1) : UbLocal2(v) >= 1 /\ Violates(cd, cols[v + 1])

\* C39 as stated: consdataCheck returns FALSE whenever a column in its range has
\* upper bound >= 0.5 and violates the record, whatever columns precede it; here
\* for the check before propagation of the first record of a call, whose range
\* is the columns below the cursor and whose failure trips the assertion.
C39_CheckFindsEveryViolation ==
    [][(call'.op = "prop"
        /\ ViolationBelow(conss[ActiveIdx[1]], conss[ActiveIdx[1]].npropagatedvars))
          => "prop_checkbefore" \in asserts']_vars


====
